---- MODULE Spec2Model ----
(***************************************************************************)
(* Model of the pagr portfolio ETL core: Position / Portfolio data model,  *)
(* position loader and validator, enrichment adapters, the pipeline        *)
(* orchestrator (load -> prices -> entity enrichment -> graph build) and   *)
(* the graph statement builder.                                            *)
(*                                                                         *)
(* Conventions                                                             *)
(*   - Python None for a string is None, for a number NoNum.               *)
(*   - Python dicts are insertion-ordered: a dict is a sequence of         *)
(*     [k, v] records with distinct keys (DictSet overwrites in place).    *)
(*   - Weights are fixed-point numbers: one unit is 1/WeightScale percent, *)
(*     every division truncates to that grid.                              *)
(*   - Interfaces follow the text of the caller under src/: the            *)
(*     orchestrator binds the result of enrich_company to `company` and    *)
(*     uses it as the Company entity; Position carries optional ticker,    *)
(*     isin, cusip as the loader constructs it.                            *)
(***************************************************************************)
EXTENDS Integers, Sequences, FiniteSets, TLC

VARIABLES
    pc,                      \* position of ETLPipeline.execute / of the driver
    positions,               \* Portfolio.positions (sequence of Position records)
    total_value,             \* Portfolio.total_value (NoNum = None)
    stats,                   \* ETLPipeline.stats (PipelineStatistics)
    idx,                     \* loop index of enrich_positions (1-based)
    stocks,                  \* enrich_positions: stocks dict
    bonds,                   \* enrich_positions: bonds dict
    companies,               \* enrich_positions: companies dict
    countries,               \* enrich_positions: countries dict
    executives,              \* enrich_positions: executives dict
    node_statements,         \* GraphBuilder.node_statements
    relationship_statements, \* GraphBuilder.relationship_statements
    result,                  \* what execute returned: [portfolio, statements]
    trace,                   \* history: one record per position handled by enrich_positions
    runs,                    \* history: number of execute calls on this pipeline object
    fetched,                 \* history: the provider's answer to the price requests of enrich_prices
    row,                     \* CSV row / constructor arguments under validation
    position,                \* outcome of validating and constructing `row`
    executed,                \* the statement lists the graph store has executed, in order
    was_reset,               \* history: reset was called on this pipeline object
    request                  \* FactSetClient: the call of _make_request in progress

vars == <<pc, positions, total_value, stats, idx, stocks, bonds, companies,
          countries, executives, node_statements, relationship_statements,
          result, trace, runs, fetched, row, position, executed, was_reset,
          request>>

-----------------------------------------------------------------------------
(* Values *)

None == "<None>"
NoNum == -1

Truthy(s) == s # None /\ s # ""

\* Python `a or b` on strings
Or(a, b) == IF Truthy(a) THEN a ELSE b

\* Python `x or 0.0` on optional numbers
OrZero(x) == IF x = NoNum THEN 0 ELSE x

RECURSIVE SumSeq(_)
SumSeq(s) == IF s = <<>> THEN 0 ELSE Head(s) + SumSeq(Tail(s))

Range(s) == {s[i] : i \in DOMAIN s}

-----------------------------------------------------------------------------
(* Bounds *)

MaxPositions == 2
MaxRuns == 2
MaxErrors == 2
MaxStatements == 2      \* statements a builder that is driven directly accumulates
MaxExecuted == 3        \* statements the store executes for such a builder

WeightScale == 10000

-----------------------------------------------------------------------------
(* Position and Portfolio: src/src/pagr/fds/models/portfolio.py *)

Position(t, i, c, q, bv, mv) ==
    [ticker |-> t, isin |-> i, cusip |-> c, quantity |-> q,
     book_value |-> bv, market_value |-> mv, weight |-> NoNum]

\* Position.get_primary_identifier: CUSIP > ISIN > ticker
get_primary_identifier_isin_first(p) ==
    IF Truthy(p.isin) THEN <<"isin", p.isin>>
    ELSE IF Truthy(p.cusip) THEN <<"cusip", p.cusip>>
    ELSE <<"ticker", p.ticker>>

get_primary_identifier(p) ==
    IF Truthy(p.cusip) THEN <<"cusip", p.cusip>>
    ELSE IF Truthy(p.isin) THEN <<"isin", p.isin>>
    ELSE <<"ticker", p.ticker>>

SetWeights(ps, w) == [i \in DOMAIN ps |-> [ps[i] EXCEPT !.weight = w[i]]]

\* weight = (val / total_value) * 100, on the fixed-point grid
WeightOf(val, total) == (val * 100 * WeightScale) \div total

\* Portfolio.calculate_weights; returns the new [positions, total_value]
calculate_weights_book_fallback(ps) ==
    IF ps = <<>> THEN [positions |-> ps, total_value |-> 0]
    ELSE IF \E i \in DOMAIN ps : ps[i].market_value # NoNum
    THEN LET total == SumSeq([i \in DOMAIN ps |-> OrZero(ps[i].market_value)])
         IN  [positions |->
                 SetWeights(ps, [i \in DOMAIN ps |->
                     IF total > 0
                     THEN WeightOf(IF ps[i].market_value = NoNum
                                   THEN ps[i].book_value
                                   ELSE ps[i].market_value, total)
                     ELSE 0]),
              total_value |-> total]
    ELSE LET total == SumSeq([i \in DOMAIN ps |-> ps[i].book_value])
         IN  [positions |->
                 SetWeights(ps, [i \in DOMAIN ps |->
                     IF total > 0 THEN WeightOf(ps[i].book_value, total) ELSE 0]),
              total_value |-> total]

calculate_weights(ps) ==
    IF ps = <<>> THEN [positions |-> ps, total_value |-> 0]
    ELSE IF \E i \in DOMAIN ps : ps[i].market_value # NoNum
    THEN LET total == SumSeq([i \in DOMAIN ps |-> OrZero(ps[i].market_value)])
         IN  [positions |->
                 SetWeights(ps, [i \in DOMAIN ps |->
                     IF total > 0
                     THEN WeightOf(OrZero(ps[i].market_value), total)
                     ELSE 0]),
              total_value |-> total]
    ELSE LET total == SumSeq([i \in DOMAIN ps |-> ps[i].book_value])
         IN  [positions |->
                 SetWeights(ps, [i \in DOMAIN ps |->
                     IF total > 0 THEN WeightOf(ps[i].book_value, total) ELSE 0]),
              total_value |-> total]

\* Portfolio.add_position
add_position(ps, p) == calculate_weights(Append(ps, p))

\* Portfolio.remove_position; weights are recomputed only when something was removed
remove_position_no_recompute(ps, total, ticker) ==
    [positions |-> SelectSeq(ps, LAMBDA p : p.ticker # ticker), total_value |-> total]

remove_position(ps, total, ticker) ==
    LET kept == SelectSeq(ps, LAMBDA p : p.ticker # ticker)
        removed == Len(kept) < Len(ps)
    IN  IF removed THEN calculate_weights(kept)
        ELSE [positions |-> kept, total_value |-> total]

-----------------------------------------------------------------------------
(* Price enrichment: src/src/pagr/fds/services/pipeline.py, enrich_prices *)

\* A provider answer to the price requests of one enrich_prices call:
\*   stock_ok  - get_last_close_prices returned (FALSE: it raised)
\*   batch_ok  - get_bond_prices_formula_api returned (FALSE: it raised and
\*               the per-CUSIP get_bond_prices fallback ran)
\*   isin_ok   - the get_bond_prices calls for ISIN positions returned
\*   priced    - identifiers for which the provider has a non-null price
\*   price     - that price
\* batch_size is 10; the portfolios of the model fit one CUSIP batch.
PriceKeys(ps, resp) ==
    LET stock_positions == {i \in DOMAIN ps : Truthy(ps[i].ticker)}
        cusip_positions == {i \in DOMAIN ps : Truthy(ps[i].cusip)}
        isin_positions == {i \in DOMAIN ps : ~Truthy(ps[i].cusip) /\ Truthy(ps[i].isin)}
    IN  (IF resp.stock_ok
         THEN {ps[i].ticker : i \in stock_positions} \cap resp.priced ELSE {})
        \cup ({ps[i].cusip : i \in cusip_positions} \cap resp.priced)
        \cup (IF resp.isin_ok
              THEN {ps[i].isin : i \in isin_positions} \cap resp.priced ELSE {})

\* errors appended by enrich_prices
PriceErrors(ps, resp) ==
    IF (\E i \in DOMAIN ps : Truthy(ps[i].ticker)) /\ ~resp.stock_ok
    THEN <<"Stock price enrichment failed">> ELSE <<>>

\* "Update positions with prices"
UpdateMarketValues_book_fallback(ps, resp) ==
    LET price_map == PriceKeys(ps, resp)
    IN  [i \in DOMAIN ps |->
            IF Truthy(ps[i].ticker) /\ ps[i].ticker \in price_map
            THEN [ps[i] EXCEPT !.market_value = ps[i].quantity * resp.price]
            ELSE IF (Truthy(ps[i].cusip) \/ Truthy(ps[i].isin))
                    /\ get_primary_identifier(ps[i])[2] \in price_map
            THEN [ps[i] EXCEPT !.market_value = ps[i].quantity * resp.price]
            ELSE [ps[i] EXCEPT !.market_value = ps[i].book_value]]

UpdateMarketValues(ps, resp) ==
    LET price_map == PriceKeys(ps, resp)
    IN  [i \in DOMAIN ps |->
            IF Truthy(ps[i].ticker) /\ ps[i].ticker \in price_map
            THEN [ps[i] EXCEPT !.market_value = ps[i].quantity * resp.price]
            ELSE IF (Truthy(ps[i].cusip) \/ Truthy(ps[i].isin))
                    /\ get_primary_identifier(ps[i])[2] \in price_map
            THEN [ps[i] EXCEPT !.market_value = ps[i].quantity * resp.price]
            ELSE ps[i]]

\* enrich_prices without the final recomputation
enrich_prices_no_recompute(ps, total, resp) ==
    [positions |-> UpdateMarketValues(ps, resp), total_value |-> total,
     errors |-> PriceErrors(ps, resp)]

enrich_prices(ps, total, resp) ==
    LET w == calculate_weights(UpdateMarketValues(ps, resp))
    IN  [positions |-> w.positions, total_value |-> w.total_value,
         errors |-> PriceErrors(ps, resp)]

Identifiers(ps) ==
    UNION {{ps[i].ticker, ps[i].isin, ps[i].cusip} : i \in DOMAIN ps} \ {None, ""}

PriceResponses(ps, prices) ==
    [stock_ok : BOOLEAN, batch_ok : BOOLEAN, isin_ok : BOOLEAN,
     priced : SUBSET Identifiers(ps), price : prices]

\* no price request made yet
NoFetch ==
    [stock_ok |-> TRUE, batch_ok |-> TRUE, isin_ok |-> TRUE, priced |-> {},
     price |-> NoNum]

-----------------------------------------------------------------------------
(* Display: src/src/pagr/ui/tabular.py, display_tabular_view.  The cells of   *)
(* the positions table that show values: a cell is [text, amount], text "$"   *)
(* for a formatted amount and "N/A" for `not available`.                      *)

MarketValueCell(market_value) ==
    IF market_value # NoNum /\ market_value # 0
    THEN [text |-> "$", amount |-> market_value]
    ELSE [text |-> "N/A", amount |-> NoNum]

display_tabular_view(ps) ==
    [i \in DOMAIN ps |->
        [book_value |-> [text |-> "$", amount |-> ps[i].book_value],
         market_value |-> MarketValueCell(ps[i].market_value)]]

-----------------------------------------------------------------------------
(* Pipeline statistics: pipeline.py, PipelineStatistics *)

PipelineStatistics ==
    [portfolios_loaded |-> 0, positions_loaded |-> 0, stocks_enriched |-> 0,
     bonds_enriched |-> 0, companies_enriched |-> 0, companies_failed |-> 0,
     bonds_failed |-> 0, executives_enriched |-> 0, countries_enriched |-> 0,
     graph_nodes_created |-> 0, graph_relationships_created |-> 0,
     errors |-> <<>>]

add_error(st, msg) == [st EXCEPT !.errors = Append(@, msg)]

\* no request was made: [state, max_retry_delay, status, retry_after, slept, depth,
\* raised]
NoRequest ==
    [state |-> "none", max_retry_delay |-> 0, status |-> 0, retry_after |-> 0,
     slept |-> <<>>, depth |-> 0, raised |-> "<returned>"]
NoResult == [returned |-> FALSE, portfolio |-> FALSE, statements |-> <<>>]
NoRow == [ticker |-> "", isin |-> "", cusip |-> "", quantity |-> ""]
NoPosition ==
    [status |-> "none", reason |-> "", ticker |-> None, isin |-> None,
     cusip |-> None, primary |-> <<"", None>>]

\* State right after construction of a Portfolio, an ETLPipeline and a GraphBuilder
Constructed ==
    /\ positions = <<>>
    /\ total_value = NoNum
    /\ stats = PipelineStatistics
    /\ idx = 0
    /\ stocks = <<>>
    /\ bonds = <<>>
    /\ companies = <<>>
    /\ countries = <<>>
    /\ executives = <<>>
    /\ node_statements = <<>>
    /\ relationship_statements = <<>>
    /\ result = NoResult
    /\ trace = <<>>
    /\ runs = 0
    /\ fetched = NoFetch
    /\ executed = <<>>
    /\ was_reset = FALSE
    /\ request = NoRequest

portfolio_vars == <<positions, total_value>>
pipeline_vars == <<stats, idx, stocks, bonds, companies, countries, executives,
                   node_statements, relationship_statements, result, trace, runs,
                   fetched, was_reset>>
loader_vars == <<row, position>>
store_vars == <<executed>>
client_vars == <<request>>

-----------------------------------------------------------------------------
(* A Portfolio driven through its public methods *)

PortfolioTickers == {"AAPL-US"}
PortfolioCusips == {"037833AA5"}
PortfolioValues == {0, 10, 30}
PortfolioMarketValues == {NoNum, 0, 20}
PortfolioPrices == {0, 3}

NewPositions ==
    {Position(t, None, None, 2, bv, mv) :
        t \in PortfolioTickers, bv \in PortfolioValues, mv \in PortfolioMarketValues}
    \cup
    {Position(None, None, c, 2, bv, mv) :
        c \in PortfolioCusips, bv \in PortfolioValues, mv \in PortfolioMarketValues}

InitPortfolio ==
    /\ pc = "Portfolio"
    /\ Constructed
    /\ row = NoRow
    /\ position = NoPosition

AddPosition ==
    /\ pc \in {"Portfolio", "add_position", "remove_position", "calculate_weights", "enrich_prices"}
    /\ Len(positions) < MaxPositions
    /\ \E p \in NewPositions :
          LET r == add_position(positions, p)
          IN  /\ positions' = r.positions
              /\ total_value' = r.total_value
    /\ pc' = "add_position"
    /\ UNCHANGED <<pipeline_vars, loader_vars, store_vars, client_vars>>

RemovePosition ==
    /\ pc \in {"Portfolio", "add_position", "remove_position", "calculate_weights", "enrich_prices"}
    /\ \E t \in PortfolioTickers \cup {None} :
          LET r == remove_position(positions, total_value, t)
          IN  /\ positions' = r.positions
              /\ total_value' = r.total_value
    /\ pc' = "remove_position"
    /\ UNCHANGED <<pipeline_vars, loader_vars, store_vars, client_vars>>

CalculateWeights ==
    /\ pc \in {"Portfolio", "add_position", "remove_position", "calculate_weights", "enrich_prices"}
    /\ LET r == calculate_weights(positions)
       IN  /\ positions' = r.positions
           /\ total_value' = r.total_value
    /\ pc' = "calculate_weights"
    /\ UNCHANGED <<pipeline_vars, loader_vars, store_vars, client_vars>>

\* ETLPipeline.enrich_prices applied to the portfolio
EnrichPortfolioPrices ==
    /\ pc \in {"Portfolio", "add_position", "remove_position", "calculate_weights", "enrich_prices"}
    /\ \E resp \in PriceResponses(positions, PortfolioPrices) :
          LET r == enrich_prices(positions, total_value, resp)
          IN  /\ Len(stats.errors) + Len(r.errors) <= MaxErrors
              /\ positions' = r.positions
              /\ total_value' = r.total_value
              /\ stats' = [stats EXCEPT !.errors = @ \o r.errors]
    /\ pc' = "enrich_prices"
    /\ UNCHANGED <<idx, stocks, bonds, companies, countries, executives,
                   node_statements, relationship_statements, result, trace, runs,
                   fetched, loader_vars, store_vars, client_vars, was_reset>>

NextPortfolio ==
    \/ AddPosition
    \/ RemovePosition
    \/ CalculateWeights
    \/ EnrichPortfolioPrices

SpecPortfolio == InitPortfolio /\ [][NextPortfolio]_vars

SumOfWeights == SumSeq([i \in DOMAIN positions |-> positions[i].weight])

\* C1: whenever total_value > 0, every position has a weight and the weights
\* sum to 100 % within the rounding of the grid (one unit per position).
C1_WeightsSumTo100 ==
    total_value > 0 =>
        /\ \A i \in DOMAIN positions : positions[i].weight # NoNum
        /\ SumOfWeights <= 100 * WeightScale
        /\ SumOfWeights >= 100 * WeightScale - Len(positions)

\* a priced and an unpriced position after price enrichment recomputed the weights
C1_Witness ==
    /\ pc = "enrich_prices"
    /\ total_value > 0
    /\ Len(positions) >= 2
    /\ \E i, j \in DOMAIN positions :
          /\ positions[i].market_value = NoNum
          /\ positions[i].book_value > 0
          /\ positions[j].market_value = 2 * 3

-----------------------------------------------------------------------------
(* Reading one CSV row: loaders/validator.py and loaders/portfolio_loader.py *)

\* a column the file does not have (dict.get falls back to its default)
Absent == "<absent>"

\* str.strip, str.lower, str.upper on the cell values of the model
Strip(s) == IF s = "  " THEN "" ELSE s
Lower(s) == IF s = "N/A" THEN "n/a" ELSE s
Upper(s) ==
    CASE s = "aapl-us" -> "AAPL-US"
      [] s = "null" -> "NULL"
      [] s = "n/a" -> "N/A"
      [] OTHER -> s

\* dict.get(key, default)
DictGetOr(v, default) == IF v = Absent THEN default ELSE v

\* float(cell) of the quantity cells of the model
QuantityOf(cell) == IF cell = "10" THEN 10 ELSE 0

\* "Treat N/A, null, and empty string as missing"
IdentifierOrEmpty(s) ==
    IF s # "" /\ Lower(s) # "n/a" /\ Lower(s) # "null" THEN s ELSE ""

\* PositionValidator.validate_position on a normalized row; the result is
\* "ok" or the message of the ValidationError it raises
validate_position_none_check(r) ==
    IF r.quantity = Absent \/ r.quantity = "" THEN "Missing required field"
    ELSE IF r.ticker = Absent /\ r.isin = Absent /\ r.cusip = Absent
         THEN "Must provide at least one identifier"
    ELSE IF QuantityOf(r.quantity) <= 0 THEN "Quantity must be positive"
    ELSE "ok"

validate_position(r) ==
    IF r.quantity = Absent \/ r.quantity = "" THEN "Missing required field"
    ELSE LET ticker == IdentifierOrEmpty(Strip(DictGetOr(r.ticker, "")))
             isin == IdentifierOrEmpty(Strip(DictGetOr(r.isin, "")))
             cusip == IdentifierOrEmpty(Strip(DictGetOr(r.cusip, "")))
         IN  IF ticker = "" /\ isin = "" /\ cusip = ""
             THEN "Must provide at least one identifier"
             ELSE IF QuantityOf(r.quantity) <= 0 THEN "Quantity must be positive"
             ELSE "ok"

\* Position(...): the model validator rejects a position none of whose
\* identifiers is present and non-empty
PositionInit_unchecked(t, i, c) ==
    [status |-> "ok", reason |-> "", ticker |-> t, isin |-> i, cusip |-> c,
     primary |-> get_primary_identifier([ticker |-> t, isin |-> i, cusip |-> c])]

PositionInit(t, i, c) ==
    IF ~Truthy(t) /\ ~Truthy(i) /\ ~Truthy(c)
    THEN [status |-> "rejected", reason |-> "Must provide at least one identifier",
          ticker |-> t, isin |-> i, cusip |-> c, primary |-> <<"", None>>]
    ELSE [status |-> "ok", reason |-> "", ticker |-> t, isin |-> i, cusip |-> c,
          primary |-> get_primary_identifier([ticker |-> t, isin |-> i, cusip |-> c])]

Rejected(reason) ==
    [status |-> "rejected", reason |-> reason, ticker |-> None, isin |-> None,
     cusip |-> None, primary |-> <<"", None>>]

\* the body of the row loop of PortfolioLoader._read_csv for one row
read_row(r) ==
    IF None \in {r.ticker, r.isin, r.cusip}
    THEN Rejected("Error parsing row")          \* v.strip() on a short row's None
    ELSE
    LET n == [ticker |-> Strip(r.ticker), isin |-> Strip(r.isin),
              cusip |-> Strip(r.cusip), quantity |-> r.quantity]
        v == validate_position(n)
        ticker_str == Strip(DictGetOr(n.ticker, ""))
        ticker == IF ticker_str # "" /\ Lower(ticker_str) \notin {"n/a", "null"}
                  THEN Upper(ticker_str) ELSE None
        isin0 == Or(Strip(DictGetOr(n.isin, "")), None)
        cusip0 == Or(Strip(DictGetOr(n.cusip, "")), None)
        isin == IF Truthy(isin0) /\ Lower(isin0) = "n/a" THEN None ELSE isin0
        cusip == IF Truthy(cusip0) /\ Lower(cusip0) = "n/a" THEN None ELSE cusip0
        built == PositionInit(ticker, isin, cusip)
    IN  IF v # "ok" THEN Rejected(v)
        ELSE IF built.status = "rejected" THEN Rejected("Error parsing row")
        ELSE built

RawTickers == {None, Absent, "", "  ", "N/A", "null", "aapl-us"}
RawIsins == {None, Absent, "", "  ", "N/A", "null", "US0378331005"}
RawCusips == {None, Absent, "", "  ", "N/A", "null", "037833100"}
RawQuantities == {"", "0", "10"}

Rows == [ticker : RawTickers, isin : RawIsins, cusip : RawCusips,
         quantity : RawQuantities]

InitPosition ==
    /\ pc = "Position"
    /\ Constructed
    /\ row \in Rows
    /\ position = NoPosition

\* the loader reads `row` from a file
ReadRow ==
    /\ pc = "Position"
    /\ position' = read_row(row)
    /\ pc' = "read_row"
    /\ UNCHANGED <<portfolio_vars, pipeline_vars, row, store_vars, client_vars>>

\* a caller constructs Position(ticker=, isin=, cusip=) from the cells of `row`;
\* an argument that is not given is None
ConstructPosition ==
    /\ pc = "Position"
    /\ position' = PositionInit(DictGetOr(row.ticker, None),
                                DictGetOr(row.isin, None),
                                DictGetOr(row.cusip, None))
    /\ pc' = "Position()"
    /\ UNCHANGED <<portfolio_vars, pipeline_vars, row, store_vars, client_vars>>

NextPosition ==
    \/ ReadRow
    \/ ConstructPosition

SpecPosition == InitPosition /\ [][NextPosition]_vars

\* C6: the primary identifier of every position that exists is its CUSIP when
\* it has one, otherwise its ISIN when it has one, otherwise its ticker.
C6_PrimaryIdentifierPrecedence ==
    position.status = "ok" =>
        /\ Truthy(position.cusip) => position.primary = <<"cusip", position.cusip>>
        /\ (~Truthy(position.cusip) /\ Truthy(position.isin)) =>
               position.primary = <<"isin", position.isin>>
        /\ (~Truthy(position.cusip) /\ ~Truthy(position.isin)) =>
               position.primary = <<"ticker", position.ticker>>

\* a position constructed with all three identifiers
C6_Witness ==
    /\ pc = "Position()"
    /\ position.status = "ok"
    /\ position.ticker = "aapl-us"
    /\ position.isin = "US0378331005"
    /\ position.cusip = "037833100"
    /\ position.primary = <<"cusip", "037833100">>

ArgumentsMissingOrEmpty ==
    \A v \in {row.ticker, row.isin, row.cusip} : v \in {None, Absent, ""}

CellsMissingOrEmpty ==
    \A v \in {row.ticker, row.isin, row.cusip} : v \in {Absent, "", "  "}

-----------------------------------------------------------------------------
(* Loading a file: PortfolioLoader.load and _read_csv on the positions that   *)
(* the rows of the file construct                                             *)

\* the check keyed by the ticker alone
validate_no_duplicates_by_ticker(ps) ==
    \E i, j \in DOMAIN ps : i < j /\ ps[i].ticker = ps[j].ticker

\* PositionValidator.validate_no_duplicates: TRUE when it raises.  The
\* identifier string is "<id_type>:<id_value>" of get_primary_identifier.
validate_no_duplicates(ps) ==
    LET identifiers == [i \in DOMAIN ps |-> get_primary_identifier(ps[i])]
    IN  \E i, j \in DOMAIN ps : i < j /\ identifiers[i] = identifiers[j]

\* PortfolioLoader.load on the positions its rows construct:
\* [loaded, positions, total_value]
load(ps) ==
    IF validate_no_duplicates(ps) \/ ps = <<>>
    THEN [loaded |-> FALSE, positions |-> ps, total_value |-> NoNum]
    ELSE LET w == calculate_weights(ps)        \* Portfolio(...); calculate_weights()
         IN  [loaded |-> TRUE, positions |-> w.positions,
              total_value |-> w.total_value]

\* the positions the rows of a file construct
LoaderBookValues == {100, 300}
LoaderPositions ==
    {Position(id[1], id[2], id[3], 10, bv, NoNum) :
        id \in {<<"AAPL-US", None, None>>,
                <<"AAPL-US", None, "037833100">>,
                <<"MSFT-US", None, "037833100">>,
                <<None, "US0378331005", None>>,
                <<"AAPL-US", "US0378331005", None>>,
                <<"037833100", None, None>>},
        bv \in LoaderBookValues}

InitLoader ==
    /\ pc = "_read_csv"
    /\ Constructed
    /\ row = NoRow
    /\ position = NoPosition

\* one iteration of the row loop: positions.append(position)
AppendPosition ==
    /\ pc = "_read_csv"
    /\ Len(positions) < MaxPositions
    /\ \E p \in LoaderPositions : positions' = Append(positions, p)
    /\ UNCHANGED <<pc, total_value, pipeline_vars, loader_vars, store_vars, client_vars>>

\* the end of the file: the duplicate check, the empty check, and the Portfolio
FinishLoad ==
    /\ pc = "_read_csv"
    /\ LET r == load(positions)
       IN  /\ positions' = r.positions
           /\ total_value' = r.total_value
           /\ pc' = IF r.loaded THEN "loaded" ELSE "load_failed"
    /\ UNCHANGED <<pipeline_vars, loader_vars, store_vars, client_vars>>

NextLoader ==
    \/ AppendPosition
    \/ FinishLoad

SpecLoader == InitLoader /\ [][NextLoader]_vars

\* the primary identifiers of the positions read
PrimaryIdentifiers == [i \in DOMAIN positions |-> get_primary_identifier(positions[i])]

C22_LoadedWeightsZero ==
    pc = "loaded" => \A i \in DOMAIN positions : positions[i].weight = 0

-----------------------------------------------------------------------------
(* Python dicts and the FIBO entities: src/src/pagr/fds/models/fibo.py *)

DictHas(d, k) == \E i \in DOMAIN d : d[i].k = k
DictGet(d, k) == d[CHOOSE i \in DOMAIN d : d[i].k = k].v
DictSet(d, k, v) ==
    IF DictHas(d, k)
    THEN [i \in DOMAIN d |-> IF d[i].k = k THEN [k |-> k, v |-> v] ELSE d[i]]
    ELSE Append(d, [k |-> k, v |-> v])

Company(fibo_id, name, ticker, country) ==
    [fibo_id |-> fibo_id, name |-> name, ticker |-> ticker, country |-> country]
Stock(fibo_id, ticker, isin, cusip) ==
    [fibo_id |-> fibo_id, ticker |-> ticker, isin |-> isin, cusip |-> cusip]
Bond(fibo_id, isin, cusip, coupon, market_price, maturity_date) ==
    [fibo_id |-> fibo_id, isin |-> isin, cusip |-> cusip, coupon |-> coupon,
     market_price |-> market_price, maturity_date |-> maturity_date]
Country(fibo_id, name, iso_code) ==
    [fibo_id |-> fibo_id, name |-> name, iso_code |-> iso_code]
Executive(fibo_id, name) == [fibo_id |-> fibo_id, name |-> name]

\* a call that returns None instead of an entity
NoCompany == Company(None, None, None, None)
NoBond == Bond(None, None, None, NoNum, NoNum, None)

\* exception classes of clients/factset_client.py; NoException: the call returned
NoException == "<returned>"
ClientErrors ==
    {"FactSetClientError", "FactSetAuthenticationError", "FactSetPermissionError",
     "FactSetNotFoundError"}

-----------------------------------------------------------------------------
(* The data provider.  An answer is chosen per position when the position is   *)
(* enriched.                                                                   *)
(*   profile  - get_company_profile: "ok", "empty" (no data or no fsymId),     *)
(*              "bad_request" (HTTP 400), "not_found" (404), "auth" (401),     *)
(*              "permission" (403), "server_error" (5xx, timeout, connection)  *)
(*   country  - address.country of the profile                                 *)
(*   officers - get_company_officers: "ok" (one officer) or "auth"             *)
(*   details  - get_bond_prices: as profile, or "unexpected" (an exception     *)
(*              that is not a FactSetClientError)                              *)
(*   issuer, price, coupon, maturity - fields of the bond data                 *)
(* The provider answers the two bond requests of one position (enrich_bond,    *)
(* resolve_issuer) alike.                                                      *)

ProfileFailures ==
    {"empty", "bad_request", "not_found", "auth", "permission", "server_error"}
DetailsFailures ==
    {"empty", "not_found", "auth", "permission", "server_error", "unexpected"}
ProviderCountries == {None, "United States"}
ProviderIssuers == {None, "Apple Inc", "US Treasury"}
ProviderBondPrices == {NoNum, 95}

\* (the officers request fails for a company without country, and a bond has a
\* price for one of the issuers: the answers vary one field at a time)
StockResponses ==
    [profile : {"ok"}, country : ProviderCountries, officers : {"ok"}]
    \cup [profile : {"ok"}, country : {None}, officers : {"auth"}]
    \cup [profile : ProfileFailures, country : {None}, officers : {"ok"}]

BondResponses ==
    [details : {"ok"}, issuer : ProviderIssuers, price : {NoNum}, coupon : {NoNum},
     maturity : {None}]
    \cup [details : {"ok"}, issuer : {"US Treasury"}, price : ProviderBondPrices,
          coupon : {5}, maturity : {"2030-06-30"}]
    \cup [details : DetailsFailures, issuer : {None}, price : {NoNum}, coupon : {NoNum},
          maturity : {None}]

\* what _make_request raises for an answer
RaisedBy(answer) ==
    CASE answer = "auth" -> "FactSetAuthenticationError"
      [] answer = "permission" -> "FactSetPermissionError"
      [] answer = "not_found" -> "FactSetNotFoundError"
      [] answer \in {"server_error", "bad_request"} -> "FactSetClientError"
      [] answer = "unexpected" -> "Exception"
      [] OTHER -> NoException

\* profile["fsymId"] and profile["name"] of the entity an identifier resolves to
EntityId(ticker) == "E-" \o ticker
EntityName(ticker) == "Company " \o ticker

\* issuer_name.lower().replace(' ', '-')
Slug(name) ==
    CASE name = "Apple Inc" -> "apple-inc"
      [] name = "US Treasury" -> "us-treasury"
      [] OTHER -> name

\* country[:2] and country[:2].upper()
First2(country) == IF country = "United States" THEN "Un" ELSE country
First2Upper(country) == IF country = "United States" THEN "UN" ELSE country

\* RelationshipEnricher COUNTRY_MAPPING: the iso_code of a known country
COUNTRY_MAPPING(country) == IF country = "United States" THEN "US" ELSE None

-----------------------------------------------------------------------------
(* Enrichers *)

\* CompanyEnricher.enrich_company: [raised, company]
enrich_company(ticker, resp) ==
    IF resp.profile = "ok"
    THEN [raised |-> NoException,
          company |-> Company("fibo:company:" \o EntityId(ticker), EntityName(ticker),
                              ticker, resp.country)]
    ELSE IF resp.profile \in {"empty", "bad_request"}
    THEN [raised |-> NoException, company |-> NoCompany]
    ELSE [raised |-> RaisedBy(resp.profile), company |-> NoCompany]

\* CompanyEnricher.enrich_executives: [raised, executives]
enrich_executives(entity_id, resp) ==
    IF resp.officers = "ok"
    THEN [raised |-> NoException,
          executives |-> <<Executive("fibo:person:" \o entity_id \o ":ceo", "CEO")>>]
    ELSE [raised |-> RaisedBy(resp.officers), executives |-> <<>>]

\* RelationshipEnricher.enrich_geography: target fibo ids of the relationships
enrich_geography(entity_id, country_name) ==
    IF ~Truthy(country_name) THEN <<>>
    ELSE IF COUNTRY_MAPPING(country_name) = None THEN <<>>
    ELSE <<"fibo:country:" \o COUNTRY_MAPPING(country_name)>>

MinimalBond(identifier, isin, cusip) ==
    Bond("fibo:bond:" \o identifier, isin, cusip, NoNum, NoNum, None)

\* BondEnricher.enrich_bond: [raised, bond]
enrich_bond_no_degradation(cusip, isin, resp) ==
    IF ~Truthy(cusip) /\ ~Truthy(isin)
    THEN [raised |-> "BondEnrichmentError", bond |-> NoBond]
    ELSE LET identifier == Or(cusip, isin)
         IN  IF resp.details = "ok"
             THEN [raised |-> NoException,
                   bond |-> Bond("fibo:bond:" \o identifier, isin, cusip, resp.coupon,
                                 resp.price, resp.maturity)]
             ELSE IF resp.details \in {"empty", "not_found"}
             THEN [raised |-> NoException, bond |-> MinimalBond(identifier, isin, cusip)]
             ELSE [raised |-> RaisedBy(resp.details), bond |-> NoBond]

enrich_bond(cusip, isin, resp) ==
    IF ~Truthy(cusip) /\ ~Truthy(isin)
    THEN [raised |-> "BondEnrichmentError", bond |-> NoBond]
    ELSE LET identifier == Or(cusip, isin)
         IN  IF resp.details = "ok"
             THEN [raised |-> NoException,
                   bond |-> Bond("fibo:bond:" \o identifier, isin, cusip, resp.coupon,
                                 resp.price, resp.maturity)]
             ELSE IF resp.details = "empty" \/ RaisedBy(resp.details) \in ClientErrors
             THEN [raised |-> NoException, bond |-> MinimalBond(identifier, isin, cusip)]
             ELSE [raised |-> RaisedBy(resp.details), bond |-> NoBond]

\* BondEnricher.resolve_issuer: [raised, company]
resolve_issuer(cusip, isin, resp) ==
    IF ~Truthy(cusip) /\ ~Truthy(isin)
    THEN [raised |-> "ValueError", company |-> NoCompany]
    ELSE IF resp.details = "ok" /\ Truthy(resp.issuer)
    THEN [raised |-> NoException,
          company |-> Company("fibo:company:" \o Slug(resp.issuer), resp.issuer,
                              None, None)]
    ELSE IF resp.details \in {"ok", "empty"} \/ RaisedBy(resp.details) \in ClientErrors
    THEN [raised |-> NoException, company |-> NoCompany]
    ELSE [raised |-> RaisedBy(resp.details), company |-> NoCompany]

-----------------------------------------------------------------------------
(* Entity enrichment: pipeline.py, enrich_positions and its two helpers.      *)
(* The helpers work on an environment e: the five dicts, the statistics,      *)
(* `raised`, the exception that leaves the helper (NoException: none), and    *)
(* two history fields: the fibo ids of the Stock or Bond and of the Company   *)
(* that the iteration built for its position.                                 *)

\* "Route to stock or bond enrichment": if position.ticker
route_by_identifier_type(pos) ==
    IF get_primary_identifier(pos)[1] = "ticker" THEN "stock" ELSE "bond"

route(pos) == IF Truthy(pos.ticker) THEN "stock" ELSE "bond"

Count(st, field) == [st EXCEPT ![field] = @ + 1]

\* for exec_obj in company_executives: executives[...] = exec_obj; executives_enriched += 1
RECURSIVE AddExecutives(_, _)
AddExecutives(e, execs) ==
    IF execs = <<>> THEN e
    ELSE AddExecutives(
             [e EXCEPT !.executives = DictSet(@, Head(execs).fibo_id, Head(execs)),
                       !.stats = Count(@, "executives_enriched")],
             Tail(execs))

\* for rel in country_data: if rel.target_fibo_id not in countries: ...
RECURSIVE AddCountries(_, _, _)
AddCountries(e, rels, company) ==
    IF rels = <<>> THEN e
    ELSE AddCountries(
             IF ~DictHas(e.countries, Head(rels))
             THEN [e EXCEPT !.countries =
                                DictSet(@, company.country,
                                        Country(Head(rels), company.country,
                                                IF Truthy(company.country)
                                                THEN First2(company.country) ELSE "XX")),
                            !.stats = Count(@, "countries_enriched")]
             ELSE e,
             Tail(rels), company)

\* the `if company:` branch of _enrich_stock_position
StockEnriched(e, pos, ticker, company, resp) ==
    LET e1 == [e EXCEPT !.companies = DictSet(@, ticker, company),
                        !.stats = Count(@, "companies_enriched")]
        stock == Stock("fibo:stock:" \o ticker, ticker, pos.isin, pos.cusip)
        e2 == [e1 EXCEPT !.stocks = DictSet(@, pos.cusip, stock),
                         !.stats = Count(@, "stocks_enriched"),
                         !.security = stock.fibo_id,
                         !.company = company.fibo_id]
        ex == enrich_executives(company.fibo_id, resp)
        e3 == IF ex.raised = NoException THEN AddExecutives(e2, ex.executives) ELSE e2
    IN  IF Truthy(company.country)
        THEN AddCountries(e3, enrich_geography(company.fibo_id, company.country), company)
        ELSE e3

\* ETLPipeline._enrich_stock_position
enrich_stock_position_not_found_is_error(e, pos, ticker, resp) ==
    LET r == enrich_company(ticker, resp)
    IN  IF r.raised = NoException
        THEN IF r.company # NoCompany
             THEN StockEnriched(e, pos, ticker, r.company, resp)
             ELSE [e EXCEPT !.stats = Count(@, "companies_failed")]
        ELSE IF r.raised \in {"FactSetAuthenticationError", "FactSetPermissionError",
                              "FactSetNotFoundError"}
        THEN [e EXCEPT !.stats = Count(add_error(@, "Failed to enrich stock"),
                                       "companies_failed")]
        ELSE [e EXCEPT !.raised = r.raised]

\* ... where a company that is not found (None returned) is not counted
enrich_stock_position_none_uncounted(e, pos, ticker, resp) ==
    LET r == enrich_company(ticker, resp)
    IN  IF r.raised = NoException
        THEN IF r.company # NoCompany
             THEN StockEnriched(e, pos, ticker, r.company, resp)
             ELSE e
        ELSE IF r.raised \in {"FactSetAuthenticationError", "FactSetPermissionError"}
        THEN [e EXCEPT !.stats = Count(add_error(@, "Failed to enrich stock"),
                                       "companies_failed")]
        ELSE IF r.raised = "FactSetNotFoundError"
        THEN [e EXCEPT !.stats = Count(@, "companies_failed")]
        ELSE [e EXCEPT !.raised = r.raised]

enrich_stock_position(e, pos, ticker, resp) ==
    LET r == enrich_company(ticker, resp)
    IN  IF r.raised = NoException
        THEN IF r.company # NoCompany
             THEN StockEnriched(e, pos, ticker, r.company, resp)
             ELSE [e EXCEPT !.stats = Count(@, "companies_failed")]
        ELSE IF r.raised \in {"FactSetAuthenticationError", "FactSetPermissionError"}
        THEN [e EXCEPT !.stats = Count(add_error(@, "Failed to enrich stock"),
                                       "companies_failed")]
        ELSE IF r.raised = "FactSetNotFoundError"
        THEN [e EXCEPT !.stats = Count(@, "companies_failed")]
        ELSE [e EXCEPT !.raised = r.raised]

\* the issuer part of _enrich_bond_position (its own try / except Exception)
BondIssuer(e, pos, resp) ==
    LET r == resolve_issuer(pos.cusip, pos.isin, resp)
        issuer == r.company
    IN  IF r.raised # NoException \/ issuer = NoCompany THEN e
        ELSE IF DictHas(e.companies, issuer.name)
        THEN [e EXCEPT !.company = DictGet(e.companies, issuer.name).fibo_id]
        ELSE LET e1 == [e EXCEPT !.companies = DictSet(@, issuer.name, issuer),
                                 !.stats = Count(@, "companies_enriched"),
                                 !.company = issuer.fibo_id]
                 iso_code == First2Upper(issuer.country)
             IN  IF Truthy(issuer.country) /\ ~DictHas(e1.countries, iso_code)
                 THEN [e1 EXCEPT !.countries =
                                     DictSet(@, iso_code,
                                             Country("fibo:country:" \o iso_code,
                                                     issuer.country, iso_code)),
                                 !.stats = Count(@, "countries_enriched")]
                 ELSE e1

\* ETLPipeline._enrich_bond_position
enrich_bond_position(e, pos, resp) ==
    LET r == enrich_bond(pos.cusip, pos.isin, resp)
        primary_id == get_primary_identifier(pos)[2]
    IN  IF r.raised # NoException
        THEN [e EXCEPT !.stats = Count(add_error(@, "Error enriching bond"),
                                       "bonds_failed")]
        ELSE BondIssuer([e EXCEPT !.bonds = DictSet(@, primary_id, r.bond),
                                  !.stats = Count(@, "bonds_enriched"),
                                  !.security = r.bond.fibo_id],
                        pos, resp)

\* one iteration of the loop of enrich_positions
enrich_position_no_catch_all(e, pos, resp) ==
    IF route(pos) = "stock"
    THEN enrich_stock_position(e, pos, get_primary_identifier(pos)[2], resp)
    ELSE enrich_bond_position(e, pos, resp)

enrich_position(e, pos, resp) ==
    LET primary == get_primary_identifier(pos)
        r == IF route(pos) = "stock"
             THEN enrich_stock_position(e, pos, primary[2], resp)
             ELSE enrich_bond_position(e, pos, resp)
    IN  IF r.raised = NoException THEN r
        ELSE [r EXCEPT !.raised = NoException,
                       !.stats = Count(add_error(@, "Unexpected error enriching"),
                                       IF Truthy(pos.ticker)
                                       THEN "companies_failed" ELSE "bonds_failed")]

-----------------------------------------------------------------------------
(* Graph statements: graph/builder.py.  A statement is a record               *)
(*   [op, key, kind, a, b, c, q, v]                                           *)
(* op is the Cypher clause that writes ("CREATE", "MERGE", or "MATCH" for a   *)
(* relationship statement, which matches its end nodes first), kind names the *)
(* node label or relationship type, a, b, c are the strings and q, v the      *)
(* numbers the statement text embeds, and key names the fields a MERGE puts   *)
(* inside the braces of its pattern; the other fields follow SET.  A string   *)
(* "" in c is a clause the text leaves out.                                   *)

NodeStatement(op, key, kind, a, b, c, q, v) ==
    [op |-> op, key |-> key, kind |-> kind, a |-> a, b |-> b, c |-> c, q |-> q, v |-> v]

Statement(kind, a, b, q, v) == NodeStatement("MATCH", {}, kind, a, b, "", q, v)

\* GraphBuilder._escape_string on the strings of the model (none has a quote)
escape_string(value) == IF value = None THEN "None" ELSE value

PortfolioName == "Portfolio"

add_portfolio_nodes(total) ==
    <<NodeStatement("MERGE", {"a", "v"}, "Portfolio", PortfolioName, "", "", 0,
                    OrZero(total))>>

\* add_position_nodes: the CREATE statements, and the CONTAINS statements
PositionNodes(ps) ==
    [i \in DOMAIN ps |->
        NodeStatement("CREATE", {}, "Position", escape_string(ps[i].ticker), "", "",
                      ps[i].quantity, ps[i].market_value)]
ContainsRelationships(ps) ==
    [i \in DOMAIN ps |->
        Statement("CONTAINS", PortfolioName, escape_string(ps[i].ticker), 0,
                  OrZero(ps[i].weight))]

\* add_security_nodes, add_company_nodes, add_country_nodes, add_executive_nodes
\* (b: the ticker property, the dict key; c: name, or country when present)
StockNodes(d) ==
    [i \in DOMAIN d |->
        NodeStatement("MERGE", {"a"}, "Stock", d[i].v.fibo_id, escape_string(d[i].k),
                      "", 0, 0)]
BondNodes(d) ==
    [i \in DOMAIN d |->
        NodeStatement("MERGE", {"a"}, "Bond", d[i].v.fibo_id, escape_string(d[i].k),
                      "", 0, 0)]
CompanyNodes_keyed_by_name(d) ==
    [i \in DOMAIN d |->
        NodeStatement("MERGE", {"a", "b"}, "Company", d[i].v.fibo_id,
                      escape_string(d[i].v.name),
                      IF Truthy(d[i].v.country) THEN d[i].v.country ELSE "", 0, 0)]
CompanyNodes(d) ==
    [i \in DOMAIN d |->
        NodeStatement("MERGE", {"a"}, "Company", d[i].v.fibo_id,
                      escape_string(d[i].v.name),
                      IF Truthy(d[i].v.country) THEN d[i].v.country ELSE "", 0, 0)]
\* (b: the iso_code property, which the text takes from the dict key; c: name)
CountryNodes(d) ==
    [i \in DOMAIN d |->
        NodeStatement("MERGE", {"a"}, "Country", d[i].v.fibo_id, escape_string(d[i].k),
                      escape_string(d[i].v.name), 0, 0)]
ExecutiveNodes(d) ==
    [i \in DOMAIN d |->
        NodeStatement("MERGE", {"a"}, "Executive", escape_string(d[i].k), d[i].v.name,
                      "", 0, 0)]

\* add_invested_in_relationships: one statement per entry of position_to_security,
\* matching Position nodes by the key (ticker, quantity, book value)
add_invested_in_relationships(position_to_security) ==
    [i \in DOMAIN position_to_security |->
        Statement("INVESTED_IN", position_to_security[i].k[1],
                  position_to_security[i].v[2],
                  position_to_security[i].k[2], position_to_security[i].k[3])]

\* add_security_issued_by_relationships: one statement per entry
add_security_issued_by_relationships(security_to_company) ==
    [i \in DOMAIN security_to_company |->
        Statement("ISSUED_BY", security_to_company[i].k, security_to_company[i].v[2], 0, 0)]

add_headquartered_in_relationships(company_to_country) ==
    [i \in DOMAIN company_to_country |->
        Statement("HEADQUARTERED_IN", escape_string(company_to_country[i].k),
                  escape_string(company_to_country[i].v), 0, 0)]

\* the relationship statements first
get_all_statements_relationships_first(nodes, rels) == rels \o nodes

\* GraphBuilder.get_all_statements
get_all_statements(nodes, rels) == nodes \o rels

\* GraphBuilder.clear: the builder's lists afterwards
clear(nodes, rels) == [node_statements |-> <<>>, relationship_statements |-> <<>>]

-----------------------------------------------------------------------------
(* The graph store: the nodes that exist after the store has executed a list  *)
(* of statements (etl_manager.py, process_uploaded_csv: one execute_query per *)
(* statement, in list order).  A node is a record [kind, a, b, c, q, v].      *)

NodeOf(s) == [kind |-> s.kind, a |-> s.a, b |-> s.b, c |-> s.c, q |-> s.q, v |-> s.v]

\* a node that the pattern of a MERGE statement matches
Matches(n, s) == n.kind = s.kind /\ \A f \in s.key : n[f] = s[f]

\* SET of a MERGE statement: every property the text names is overwritten
SetProperties(n, s) ==
    [n EXCEPT !.b = s.b, !.c = IF s.c = "" THEN @ ELSE s.c]

\* one execute_query
ExecuteStatement(nodes, s) ==
    CASE s.op = "CREATE" -> Append(nodes, NodeOf(s))
      [] s.op = "MERGE" ->
            IF \E i \in DOMAIN nodes : Matches(nodes[i], s)
            THEN [i \in DOMAIN nodes |->
                     IF Matches(nodes[i], s) THEN SetProperties(nodes[i], s)
                     ELSE nodes[i]]
            ELSE Append(nodes, NodeOf(s))
      [] s.kind = "HEADQUARTERED_IN" ->
            \* MATCH (c:Company {fibo_id}) MERGE (co:Country {iso_code}) CREATE ...
            IF /\ \E i \in DOMAIN nodes : nodes[i].kind = "Company" /\ nodes[i].a = s.a
               /\ ~\E i \in DOMAIN nodes : nodes[i].kind = "Country" /\ nodes[i].b = s.b
            THEN Append(nodes, [kind |-> "Country", a |-> "", b |-> s.b, c |-> "",
                                q |-> 0, v |-> 0])
            ELSE nodes
      [] OTHER -> nodes

RECURSIVE Execute(_, _)
Execute(nodes, statements) ==
    IF statements = <<>> THEN nodes
    ELSE Execute(ExecuteStatement(nodes, Head(statements)), Tail(statements))

RECURSIVE Flatten(_)
Flatten(lists) == IF lists = <<>> THEN <<>> ELSE Head(lists) \o Flatten(Tail(lists))

\* the nodes of the store after everything it has executed
StoreNodes == Execute(<<>>, Flatten(executed))

-----------------------------------------------------------------------------
(* A GraphBuilder driven through add_company_nodes, clear and                 *)
(* get_all_statements, whose statements a store executes                      *)

\* one company as two runs may see it, and another company
BuilderCompanies ==
    {Company("fibo:company:E-AAPL-US", "Company AAPL-US", "AAPL-US", "United States"),
     Company("fibo:company:E-AAPL-US", "Apple Inc", "AAPL-US", None),
     Company("fibo:company:us-treasury", "US Treasury", None, None)}

InitBuilder ==
    /\ pc = "builder"
    /\ Constructed
    /\ row = NoRow
    /\ position = NoPosition

AddCompanyNodes ==
    /\ pc = "builder"
    /\ Len(node_statements) < MaxStatements
    /\ \E c \in BuilderCompanies :
          node_statements' =
              node_statements \o CompanyNodes(<<[k |-> Or(c.ticker, c.name), v |-> c]>>)
    /\ UNCHANGED <<pc, portfolio_vars, stats, idx, stocks, bonds, companies, countries,
                   executives, relationship_statements, result, trace, runs, fetched,
                   loader_vars, store_vars, client_vars, was_reset>>

\* GraphBuilder.clear
Clear ==
    /\ pc = "builder"
    /\ node_statements' = clear(node_statements, relationship_statements).node_statements
    /\ relationship_statements' =
           clear(node_statements, relationship_statements).relationship_statements
    /\ UNCHANGED <<pc, portfolio_vars, stats, idx, stocks, bonds, companies, countries,
                   executives, result, trace, runs, fetched, loader_vars, store_vars, client_vars,
                   was_reset>>

\* the caller hands get_all_statements() to the store
ExecuteStatements ==
    /\ pc = "builder"
    /\ LET all == get_all_statements(node_statements, relationship_statements)
       IN  /\ all # <<>>
           /\ Len(Flatten(executed)) + Len(all) <= MaxExecuted
           /\ executed' = Append(executed, all)
    /\ UNCHANGED <<pc, portfolio_vars, pipeline_vars, loader_vars, client_vars>>

NextBuilder ==
    \/ AddCompanyNodes
    \/ Clear
    \/ ExecuteStatements

SpecBuilder == InitBuilder /\ [][NextBuilder]_vars

\* the Company statements the store has executed, and the Company nodes it holds
CompanyStatements ==
    LET log == Flatten(executed)
    IN  {i \in DOMAIN log : log[i].kind = "Company"}
CompanyNodesOf(id) ==
    {j \in DOMAIN StoreNodes : StoreNodes[j].kind = "Company" /\ StoreNodes[j].a = id}

\* C12: every Company statement is a MERGE keyed by the FIBO id alone, and after
\* the store executed any number of them for one FIBO id, in one list or in
\* several, it holds exactly one Company node for that id, which has the
\* properties that the latest of these statements sets.
C12_CompanyMergedByFiboId ==
    LET log == Flatten(executed)
    IN  \A i \in CompanyStatements :
            LET same == {k \in CompanyStatements : log[k].a = log[i].a}
                last == CHOOSE k \in same : \A m \in same : m <= k
            IN  /\ log[i].op = "MERGE"
                /\ log[i].key = {"a"}
                /\ Cardinality(CompanyNodesOf(log[i].a)) = 1
                /\ \A j \in CompanyNodesOf(log[i].a) :
                      /\ StoreNodes[j].b = log[last].b
                      /\ log[last].c # "" => StoreNodes[j].c = log[last].c

\* the store executed one company twice in one list and then, from a cleared
\* builder, once more under another name
C12_Witness ==
    /\ pc = "builder"
    /\ Len(executed) = 2
    /\ Len(executed[1]) = 2
    /\ executed[1][1].a = executed[1][2].a
    /\ executed[2][1].a = executed[1][1].a
    /\ executed[2][1].b # executed[1][2].b
    /\ Cardinality(CompanyNodesOf(executed[1][1].a)) = 1

-----------------------------------------------------------------------------
(* The relationships of the store.  A relationship statement matches its two  *)
(* end nodes among the nodes the store holds when the statement is executed   *)
(* and creates one relationship for every pair of matches.  A relationship is *)
(*   [type, from, to, by]                                                     *)
(* from and to being places in the node sequence (nodes are never removed)    *)
(* and by the place of the statement in the log of everything executed.       *)

\* the end nodes of an INVESTED_IN statement: the Position nodes that have the
\* ticker and the quantity of the key (a Position node has no book value), and
\* the Stock or Bond with the fibo_id
InvestedInNodes(nodes, s) ==
    [from |-> {i \in DOMAIN nodes :
                  nodes[i].kind = "Position" /\ nodes[i].a = s.a /\ nodes[i].q = s.q},
     to |-> {j \in DOMAIN nodes :
                nodes[j].kind \in {"Stock", "Bond"} /\ nodes[j].a = s.b}]

\* the end nodes of an ISSUED_BY statement: the Stock or Bond and the Company
\* with the fibo_ids
IssuedByNodes(nodes, s) ==
    [from |-> {i \in DOMAIN nodes :
                  nodes[i].kind \in {"Stock", "Bond"} /\ nodes[i].a = s.a},
     to |-> {j \in DOMAIN nodes : nodes[j].kind = "Company" /\ nodes[j].a = s.b}]

\* the nodes that the first pattern of a relationship statement matches
\*   CONTAINS          (p:Portfolio {name})
\*   HEADQUARTERED_IN  (c:Company {fibo_id})
StartNodes(nodes, s) ==
    CASE s.kind = "CONTAINS" ->
            {i \in DOMAIN nodes : nodes[i].kind = "Portfolio" /\ nodes[i].a = s.a}
      [] s.kind = "HEADQUARTERED_IN" ->
            {i \in DOMAIN nodes : nodes[i].kind = "Company" /\ nodes[i].a = s.a}
      [] s.kind = "INVESTED_IN" -> InvestedInNodes(nodes, s).from
      [] s.kind = "ISSUED_BY" -> IssuedByNodes(nodes, s).from
      [] OTHER -> {}

\* the nodes that the second pattern matches
\*   CONTAINS          (pos:Position {ticker})
\*   HEADQUARTERED_IN  (co:Country {iso_code})
EndNodes(nodes, s) ==
    CASE s.kind = "CONTAINS" ->
            {j \in DOMAIN nodes : nodes[j].kind = "Position" /\ nodes[j].a = s.b}
      [] s.kind = "HEADQUARTERED_IN" ->
            {j \in DOMAIN nodes : nodes[j].kind = "Country" /\ nodes[j].b = s.b}
      [] s.kind = "INVESTED_IN" -> InvestedInNodes(nodes, s).to
      [] s.kind = "ISSUED_BY" -> IssuedByNodes(nodes, s).to
      [] OTHER -> {}

\* CREATE (x)-[:TYPE]->(y) of the statement at place `by` of the log, on the
\* nodes the store holds after the MERGE of the statement, if it has one
CreatedRelationships(nodes, s, by) ==
    IF s.op # "MATCH" THEN {}
    ELSE {[type |-> s.kind, from |-> i, to |-> j, by |-> by] :
             i \in StartNodes(nodes, s), j \in EndNodes(nodes, s)}

\* the store after the statements log[by], log[by + 1], ...
RECURSIVE ExecuteFrom(_, _, _)
ExecuteFrom(g, log, by) ==
    IF by > Len(log) THEN g
    ELSE LET nodes == ExecuteStatement(g.nodes, log[by])
         IN  ExecuteFrom([nodes |-> nodes,
                          relationships |->
                              g.relationships
                              \cup CreatedRelationships(nodes, log[by], by)],
                         log, by + 1)

\* the store that has executed these statements, one after the other
GraphOf(statements) ==
    ExecuteFrom([nodes |-> <<>>, relationships |-> {}], statements, 1)

StoreGraph == GraphOf(Flatten(executed))

-----------------------------------------------------------------------------
(* Queries: graph/queries.py, the sector-exposure template evaluated on a     *)
(* store                                                                      *)

\* profile.get("sector") of the entity an identifier resolves to
EntitySector(ticker) == IF ticker = "AAPL-US" THEN "Technology" ELSE "Software"

\* c.sector of the Company node with this fibo_id: add_company_nodes sets it from
\* company.sector when the company has one, which a company built from a profile
\* has and the issuer of a bond has not (bond_enricher.py, resolve_issuer:
\* sector=None)
CompanySector(fibo_id) ==
    IF \E name \in ProviderIssuers : fibo_id = "fibo:company:" \o Slug(name)
    THEN None
    ELSE IF fibo_id = "fibo:company:" \o EntityId("AAPL-US")
    THEN EntitySector("AAPL-US")
    ELSE EntitySector("")

\* SUM(pos.market_value) over rows: a row without the property adds nothing
RECURSIVE SumMarketValue(_, _)
SumMarketValue(nodes, rows) ==
    IF rows = {} THEN 0
    ELSE LET row_ == CHOOSE x \in rows : TRUE
         IN  OrZero(nodes[row_[1].to].v) + SumMarketValue(nodes, rows \ {row_})

\* GraphQueries.sector_exposure(portfolio_names) on the store g, the names as a
\* list (one name is a list of one): the rows of
\*   MATCH (p:Portfolio)-[:CONTAINS]->(pos:Position)-[:INVESTED_IN]->(sec)
\*         -[:ISSUED_BY]->(c:Company)  WHERE p.name IN [names]
\*   RETURN c.sector, SUM(pos.market_value), COUNT(pos)
\* MATCH yields one row for every path, and the rows are grouped by c.sector
sector_exposure(g, portfolio_names) ==
    LET Of(type) == {r \in g.relationships : r.type = type}
        matched ==
            {path \in Of("CONTAINS") \X Of("INVESTED_IN") \X Of("ISSUED_BY") :
                /\ g.nodes[path[1].from].a \in Range(portfolio_names)
                /\ path[1].to = path[2].from
                /\ path[2].to = path[3].from}
        SectorOf(path) == CompanySector(g.nodes[path[3].to].a)
        Group(sector) == {path \in matched : SectorOf(path) = sector}
    IN  {[sector |-> SectorOf(path),
          total_exposure |-> SumMarketValue(g.nodes, Group(SectorOf(path))),
          num_positions |-> Cardinality(Group(SectorOf(path)))] : path \in matched}

-----------------------------------------------------------------------------
(* The text of the statements: graph/builder.py.  Here a string is the        *)
(* sequence of its characters and a statement is represented by the string    *)
(* literals of its text: [kind, literals], a literal being                    *)
(* [field, value, text] with the value handed to the builder and the          *)
(* characters the builder puts between the quotes of '...'.                   *)

MaxLen == 2

Chars == {"a", "'"}

\* the strings of at most MaxLen characters
Strings == UNION {[1..n -> Chars] : n \in 0..MaxLen}

\* GraphBuilder._escape_string: value.replace("'", "''")
RECURSIVE escape_chars(_)
escape_chars(value) ==
    IF value = <<>> THEN <<>>
    ELSE (IF Head(value) = "'" THEN <<"'", "'">> ELSE <<Head(value)>>)
         \o escape_chars(Tail(value))

Escaped(field, value) == [field |-> field, value |-> value, text |-> escape_chars(value)]
Embedded(field, value) == [field |-> field, value |-> value, text |-> value]

\* datetime.now().isoformat()
NowIsoformat == <<"a">>

\* add_portfolio_nodes: the string literals of the Portfolio statement
portfolio_literals(name, created_at) ==
    <<Escaped("name", name),
      Embedded("created_at", IF created_at # <<>> THEN created_at ELSE NowIsoformat)>>

\* add_position_nodes: the Position statement and the CONTAINS statement
position_literals(ticker, isin) ==
    <<Escaped("ticker", ticker)>>
    \o (IF isin # <<>> THEN <<Escaped("isin", isin)>> ELSE <<>>)
contains_literals(portfolio_name, ticker) ==
    <<Escaped("name", portfolio_name), Escaped("ticker", ticker)>>

\* add_company_nodes
company_literals(ticker, name) ==
    <<Escaped("name", name), Escaped("ticker", ticker)>>

\* add_country_nodes
country_literals(iso_code, name) ==
    <<Escaped("name", name), Escaped("iso_code", iso_code)>>

\* add_executive_nodes
executive_literals(fibo_id, name) ==
    <<Escaped("fibo_id", fibo_id), Escaped("name", name)>>

\* add_security_nodes, a stock
stock_literals(ticker, isin) ==
    <<Escaped("ticker", ticker)>>
    \o (IF isin # <<>> THEN <<Escaped("isin", isin)>> ELSE <<>>)

\* add_headquartered_in_relationships
headquartered_in_literals(company_fibo_id, country_iso) ==
    <<Escaped("fibo_id", company_fibo_id), Escaped("iso_code", country_iso)>>

Text(kind, literals) == [kind |-> kind, literals |-> literals]

InitText ==
    /\ pc = "text"
    /\ Constructed
    /\ row = NoRow
    /\ position = NoPosition

\* a new builder
NewBuilder == node_statements = <<>> /\ relationship_statements = <<>>

text_vars == <<pc, portfolio_vars, stats, idx, stocks, bonds, companies, countries,
               executives, result, trace, runs, fetched, loader_vars, store_vars, client_vars,
               was_reset>>

AddPortfolioText ==
    /\ pc = "text" /\ NewBuilder
    /\ \E name, created_at \in Strings :
          node_statements' = <<Text("Portfolio", portfolio_literals(name, created_at))>>
    /\ UNCHANGED <<relationship_statements, text_vars>>

AddPositionText ==
    /\ pc = "text" /\ NewBuilder
    /\ \E ticker, portfolio_name \in Strings :
          /\ node_statements' = <<Text("Position", position_literals(ticker, <<>>))>>
          /\ relationship_statements' =
                 <<Text("CONTAINS", contains_literals(portfolio_name, ticker))>>
    /\ UNCHANGED text_vars

AddCompanyText ==
    /\ pc = "text" /\ NewBuilder
    /\ \E ticker, name \in Strings :
          node_statements' = <<Text("Company", company_literals(ticker, name))>>
    /\ UNCHANGED <<relationship_statements, text_vars>>

AddCountryText ==
    /\ pc = "text" /\ NewBuilder
    /\ \E iso_code, name \in Strings :
          node_statements' = <<Text("Country", country_literals(iso_code, name))>>
    /\ UNCHANGED <<relationship_statements, text_vars>>

AddExecutiveText ==
    /\ pc = "text" /\ NewBuilder
    /\ \E fibo_id, name \in Strings :
          node_statements' = <<Text("Executive", executive_literals(fibo_id, name))>>
    /\ UNCHANGED <<relationship_statements, text_vars>>

AddStockText ==
    /\ pc = "text" /\ NewBuilder
    /\ \E ticker, isin \in Strings :
          node_statements' = <<Text("Stock", stock_literals(ticker, isin))>>
    /\ UNCHANGED <<relationship_statements, text_vars>>

AddHeadquarteredInText ==
    /\ pc = "text" /\ NewBuilder
    /\ \E company_fibo_id, country_iso \in Strings :
          relationship_statements' =
              <<Text("HEADQUARTERED_IN",
                     headquartered_in_literals(company_fibo_id, country_iso))>>
    /\ UNCHANGED <<node_statements, text_vars>>

NextText ==
    \/ AddPortfolioText
    \/ AddPositionText
    \/ AddCompanyText
    \/ AddCountryText
    \/ AddExecutiveText
    \/ AddStockText
    \/ AddHeadquarteredInText

SpecText == InitText /\ [][NextText]_vars

\* read as the body of a literal '...' in which '' stands for a quote, the
\* characters hold no quote that ends the literal
RECURSIVE StaysInside(_)
StaysInside(text) ==
    IF text = <<>> THEN TRUE
    ELSE IF Head(text) # "'" THEN StaysInside(Tail(text))
    ELSE Len(text) >= 2 /\ text[2] = "'" /\ StaysInside(Tail(Tail(text)))

TextLiterals ==
    UNION {Range(t.literals) :
              t \in Range(node_statements) \cup Range(relationship_statements)}

\* C23: every string literal of a generated statement holds its value with each
\* single quote doubled, so that no value ends the literal that contains it.
C23_EveryStringEscaped ==
    pc = "text" =>
        \A l \in TextLiterals :
            /\ l.text = escape_chars(l.value)
            /\ StaysInside(l.text)

-----------------------------------------------------------------------------
(* Graph build: pipeline.py, build_graph *)

\* "Build Position -> Security mappings for INVESTED_IN relationships"
RECURSIVE PositionToSecurity(_, _, _, _)
PositionToSecurity(d, ps, stocks_, bonds_) ==
    IF ps = <<>> THEN d
    ELSE LET pos == Head(ps)
             primary_id == get_primary_identifier(pos)[2]
         IN  PositionToSecurity(
                 IF Truthy(pos.cusip) /\ DictHas(stocks_, pos.cusip)
                 THEN DictSet(d, <<pos.ticker, pos.quantity, pos.book_value>>,
                              <<"stock", DictGet(stocks_, pos.cusip).fibo_id>>)
                 ELSE IF (Truthy(pos.cusip) \/ Truthy(pos.isin))
                         /\ DictHas(bonds_, primary_id)
                 THEN DictSet(d, <<Or(pos.ticker, ""), pos.quantity, pos.book_value>>,
                              <<"bond", DictGet(bonds_, primary_id).fibo_id>>)
                 ELSE d,
                 Tail(ps), stocks_, bonds_)

\* "Stocks -> Companies": for ticker, stock in stocks.items(): if ticker in companies
RECURSIVE StocksToCompanies(_, _, _)
StocksToCompanies(d, stocks_, companies_) ==
    IF stocks_ = <<>> THEN d
    ELSE LET ticker == Head(stocks_).k
             stock == Head(stocks_).v
         IN  StocksToCompanies(
                 IF DictHas(companies_, ticker)
                 THEN DictSet(d, stock.fibo_id,
                              <<"stock", DictGet(companies_, ticker).fibo_id>>)
                 ELSE d,
                 Tail(stocks_), companies_)

\* "Bonds -> Companies (by issuer)": the first company that has a name
RECURSIVE BondsToCompanies(_, _, _)
BondsToCompanies(d, bonds_, companies_) ==
    IF bonds_ = <<>> THEN d
    ELSE LET bond_id == Head(bonds_).k
             bond == Head(bonds_).v
             named == {i \in DOMAIN companies_ :
                          Truthy(companies_[i].v.name) /\ ~DictHas(d, bond_id)}
         IN  BondsToCompanies(
                 IF named # {}
                 THEN DictSet(d, bond.fibo_id,
                              <<"bond",
                                companies_[CHOOSE i \in named :
                                              \A j \in named : i <= j].v.fibo_id>>)
                 ELSE d,
                 Tail(bonds_), companies_)

\* "Add HEADQUARTERED_IN relationships (company -> country)"
RECURSIVE CompanyToCountry(_, _, _)
CompanyToCountry(d, companies_, countries_) ==
    IF companies_ = <<>> THEN d
    ELSE LET company == Head(companies_).v
             found == {i \in DOMAIN countries_ :
                          Lower(countries_[i].k) = Lower(company.country)}
             first_iso == IF found = {} THEN None
                          ELSE countries_[CHOOSE i \in found :
                                             \A j \in found : i <= j].v.iso_code
             iso_code == IF Truthy(first_iso) THEN first_iso
                         ELSE First2Upper(company.country)
         IN  CompanyToCountry(
                 IF Truthy(company.country) THEN DictSet(d, company.fibo_id, iso_code)
                 ELSE d,
                 Tail(companies_), countries_)

\* the calls of build_graph that generate statements, in the order of the code
GraphCalls ==
    <<"add_portfolio_nodes", "add_position_nodes", "add_security_nodes",
      "add_company_nodes", "add_country_nodes", "add_executive_nodes",
      "add_invested_in_relationships", "add_security_issued_by_relationships",
      "add_headquartered_in_relationships">>

CallIndex(call) == CHOOSE i \in DOMAIN GraphCalls : GraphCalls[i] = call

\* the call is reached and returns: nothing raised in it or before it
Completed(call, raises) ==
    raises = None \/ CallIndex(call) < CallIndex(raises)

\* ETLPipeline.build_graph on the builder's lists, where the call `raises`
\* (None: no call) raises and the others return: the new
\* [node_statements, relationship_statements, stats, statements]
build_graph(ps, total, e, nodes, rels, raises) ==
    LET Did(call) == Completed(call, raises)
        nodes1 == nodes
                  \o (IF Did("add_portfolio_nodes") THEN add_portfolio_nodes(total)
                      ELSE <<>>)
                  \o (IF Did("add_position_nodes") THEN PositionNodes(ps) ELSE <<>>)
                  \o (IF Did("add_security_nodes") /\ (e.stocks # <<>> \/ e.bonds # <<>>)
                      THEN StockNodes(e.stocks) \o BondNodes(e.bonds) ELSE <<>>)
                  \o (IF Did("add_company_nodes") THEN CompanyNodes(e.companies)
                      ELSE <<>>)
                  \o (IF Did("add_country_nodes") THEN CountryNodes(e.countries)
                      ELSE <<>>)
                  \o (IF Did("add_executive_nodes") THEN ExecutiveNodes(e.executives)
                      ELSE <<>>)
        position_to_security == PositionToSecurity(<<>>, ps, e.stocks, e.bonds)
        security_to_company ==
            BondsToCompanies(StocksToCompanies(<<>>, e.stocks, e.companies),
                             e.bonds, e.companies)
        company_to_country == CompanyToCountry(<<>>, e.companies, e.countries)
        rels1 == rels
                 \o (IF Did("add_position_nodes") THEN ContainsRelationships(ps)
                     ELSE <<>>)
                 \o (IF Did("add_invested_in_relationships")
                     THEN add_invested_in_relationships(position_to_security)
                     ELSE <<>>)
                 \o (IF Did("add_security_issued_by_relationships")
                     THEN add_security_issued_by_relationships(security_to_company)
                     ELSE <<>>)
                 \o (IF Did("add_headquartered_in_relationships")
                     THEN add_headquartered_in_relationships(company_to_country)
                     ELSE <<>>)
        Counted(call, n) == IF Did(call) THEN n ELSE 0
        st == [e.stats EXCEPT
                 !.graph_nodes_created =
                     @ + Counted("add_portfolio_nodes", 1)
                       + Counted("add_position_nodes", Len(ps))
                       + Counted("add_security_nodes", Len(e.stocks) + Len(e.bonds))
                       + Counted("add_company_nodes", Len(e.companies))
                       + Counted("add_country_nodes", Len(e.countries))
                       + Counted("add_executive_nodes", Len(e.executives)),
                 !.graph_relationships_created =
                     @ + Counted("add_position_nodes", Len(ps))
                       + Counted("add_invested_in_relationships",
                               Len(position_to_security))
                       + Counted("add_security_issued_by_relationships",
                               Len(security_to_company))
                       + Counted("add_headquartered_in_relationships",
                               Len(company_to_country))]
    IN  IF raises = None
        THEN [node_statements |-> nodes1, relationship_statements |-> rels1,
              stats |-> st, statements |-> get_all_statements(nodes1, rels1)]
        ELSE \* except Exception: add_error, return []
             [node_statements |-> nodes1, relationship_statements |-> rels1,
              stats |-> add_error(st, "Failed to build graph"),
              statements |-> <<>>]

\* the calls build_graph makes for these entities (the others are skipped by
\* their `if`)
CallsMade(ps, e) ==
    {"add_portfolio_nodes", "add_position_nodes"}
    \cup (IF e.stocks # <<>> \/ e.bonds # <<>> THEN {"add_security_nodes"} ELSE {})
    \cup (IF e.companies # <<>> THEN {"add_company_nodes"} ELSE {})
    \cup (IF e.countries # <<>> THEN {"add_country_nodes"} ELSE {})
    \cup (IF e.executives # <<>> THEN {"add_executive_nodes"} ELSE {})
    \cup (IF PositionToSecurity(<<>>, ps, e.stocks, e.bonds) # <<>>
          THEN {"add_invested_in_relationships"} ELSE {})
    \cup (IF BondsToCompanies(StocksToCompanies(<<>>, e.stocks, e.companies),
                              e.bonds, e.companies) # <<>>
          THEN {"add_security_issued_by_relationships"} ELSE {})
    \cup (IF CompanyToCountry(<<>>, e.companies, e.countries) # <<>>
          THEN {"add_headquartered_in_relationships"} ELSE {})

-----------------------------------------------------------------------------
(* The pipeline: ETLPipeline.execute, stage by stage *)

\* the positions a portfolio file can hold
CatalogPositions ==
    {Position("AAPL-US", None, None, 10, 100, NoNum),
     Position("MSFT-US", None, "594918104", 5, 200, NoNum),
     Position(None, None, "912828ZT6", 100, 1000, NoNum),
     Position(None, "US037833AK68", None, 100, 1000, NoNum)}

\* portfolio files that load: up to MaxPositions positions, no identifier twice
FilesOf(catalog, n) ==
    UNION {{f \in [1..k -> catalog] : \A i, j \in 1..k : f[i] = f[j] => i = j} :
              k \in 1..n}
Files == FilesOf(CatalogPositions, MaxPositions)
SmallFiles == FilesOf({Position("AAPL-US", None, None, 10, 100, NoNum)}, 1)

PipelinePrices == {3}
\* every request answered with or without prices, or one kind of request failing
PipelinePriceResponses(ps) ==
    [stock_ok : BOOLEAN, batch_ok : {TRUE}, isin_ok : {TRUE},
     priced : {{}, Identifiers(ps)}, price : PipelinePrices]
    \cup [stock_ok : {TRUE}, batch_ok : {FALSE}, isin_ok : {TRUE},
          priced : {Identifiers(ps)}, price : PipelinePrices]
    \cup [stock_ok : {TRUE}, batch_ok : {TRUE}, isin_ok : {FALSE},
          priced : {Identifiers(ps)}, price : PipelinePrices]

Responses(r) == IF r = "stock" THEN StockResponses ELSE BondResponses

Env ==
    [stocks |-> stocks, bonds |-> bonds, companies |-> companies,
     countries |-> countries, executives |-> executives, stats |-> stats,
     raised |-> NoException, security |-> None, company |-> None]

Init ==
    /\ pc = "idle"
    /\ Constructed
    /\ row = NoRow
    /\ position = NoPosition

\* load_portfolio, `except Exception`: the statistics after a failed load
load_failed_logged_only(st) == st

load_failed(st) == add_error(st, "Failed to load portfolio")

\* execute, step 1: load_portfolio, and the early return when it fails
LoadFrom(files) ==
    /\ runs' = runs + 1
    /\ idx' = 0
    /\ stocks' = <<>>
    /\ bonds' = <<>>
    /\ companies' = <<>>
    /\ countries' = <<>>
    /\ executives' = <<>>
    /\ trace' = <<>>
    /\ fetched' = NoFetch
    /\ UNCHANGED <<node_statements, relationship_statements, loader_vars, store_vars, client_vars,
                   was_reset>>
    /\ \/ \E f \in files :
             LET w == calculate_weights(f)       \* PortfolioLoader.load
             IN  /\ positions' = w.positions
                 /\ total_value' = w.total_value
                 /\ stats' = [stats EXCEPT !.portfolios_loaded = 1,
                                           !.positions_loaded = Len(f)]
                 /\ result' = NoResult
                 /\ pc' = "enrich_prices"
       \/ /\ positions' = <<>>                   \* the loader raised
          /\ total_value' = NoNum
          /\ stats' = load_failed(stats)
          /\ result' = [returned |-> TRUE, portfolio |-> FALSE, statements |-> <<>>]
          /\ pc' = "done"

Load ==
    /\ pc = "idle"
    /\ LoadFrom(Files)

\* execute, step 2
EnrichPrices ==
    /\ pc = "enrich_prices"
    /\ \E resp \in PipelinePriceResponses(positions) :
          LET r == enrich_prices(positions, total_value, resp)
          IN  /\ positions' = r.positions
              /\ total_value' = r.total_value
              /\ stats' = [stats EXCEPT !.errors = @ \o r.errors]
              /\ fetched' = resp
    /\ idx' = 1
    /\ pc' = "enrich_positions"
    /\ UNCHANGED <<stocks, bonds, companies, countries, executives, node_statements,
                   relationship_statements, result, trace, runs, loader_vars,
                   store_vars, client_vars, was_reset>>

\* execute, step 3: one iteration of the loop of enrich_positions
EnrichPosition ==
    /\ pc = "enrich_positions"
    /\ idx <= Len(positions)
    /\ \E resp \in Responses(route(positions[idx])) :
          LET pos == positions[idx]
              e == enrich_position(Env, pos, resp)
          IN  /\ stocks' = e.stocks
              /\ bonds' = e.bonds
              /\ companies' = e.companies
              /\ countries' = e.countries
              /\ executives' = e.executives
              /\ stats' = e.stats
              /\ trace' = Append(trace,
                     [route |-> route(pos), resp |-> resp,
                      errors_added |-> Len(e.stats.errors) - Len(stats.errors),
                      companies_failed_added |->
                          e.stats.companies_failed - stats.companies_failed,
                      bonds_failed_added |-> e.stats.bonds_failed - stats.bonds_failed,
                      stocks_enriched_added |->
                          e.stats.stocks_enriched - stats.stocks_enriched,
                      bonds_enriched_added |->
                          e.stats.bonds_enriched - stats.bonds_enriched,
                      security |-> e.security, company |-> e.company])
              /\ IF e.raised = NoException
                 THEN pc' = pc /\ idx' = idx + 1
                 ELSE pc' = "raised" /\ idx' = idx   \* execute is left by the exception
    /\ UNCHANGED <<portfolio_vars, node_statements, relationship_statements, result,
                   runs, fetched, loader_vars,
                   store_vars, client_vars, was_reset>>

\* execute, step 4 and the return, where the calls build_graph makes return
\* or one of them, among `calls`, raises
BuildGraphRaising(calls) ==
    /\ pc = "enrich_positions"
    /\ idx > Len(positions)
    /\ \E raises \in {None} \cup (CallsMade(positions, Env) \cap calls) :
       LET g == build_graph(positions, total_value, Env, node_statements,
                            relationship_statements, raises)
       IN  /\ node_statements' = g.node_statements
           /\ relationship_statements' = g.relationship_statements
           /\ stats' = g.stats
           /\ result' = [returned |-> TRUE, portfolio |-> TRUE,
                         statements |-> g.statements]
    /\ pc' = "done"
    /\ UNCHANGED <<portfolio_vars, idx, stocks, bonds, companies, countries,
                   executives, trace, runs, fetched, loader_vars,
                   store_vars, client_vars, was_reset>>

\* every call of the builder returns
BuildGraph == BuildGraphRaising({})

\* any call of the builder may raise
BuildGraphOrFail == BuildGraphRaising(Range(GraphCalls))

\* a reset that replaces the statistics and leaves the builder as it is
reset_keeps_builder(st, nodes, rels) ==
    [stats |-> PipelineStatistics,
     builder |-> [node_statements |-> nodes, relationship_statements |-> rels]]

\* ETLPipeline.reset: the statistics and the builder's lists afterwards
reset(st, nodes, rels) ==
    [stats |-> PipelineStatistics, builder |-> clear(nodes, rels)]

\* ETLPipeline.reset, called between executions; the caller drops the results
\* of the finished execution
Reset ==
    /\ pc = "done"
    /\ LET r == reset(stats, node_statements, relationship_statements)
       IN  /\ stats' = r.stats
           /\ node_statements' = r.builder.node_statements
           /\ relationship_statements' = r.builder.relationship_statements
    /\ positions' = <<>>
    /\ total_value' = NoNum
    /\ idx' = 0
    /\ stocks' = <<>>
    /\ bonds' = <<>>
    /\ companies' = <<>>
    /\ countries' = <<>>
    /\ executives' = <<>>
    /\ result' = NoResult
    /\ trace' = <<>>
    /\ runs' = 0
    /\ fetched' = NoFetch
    /\ was_reset' = TRUE
    /\ pc' = "idle"
    /\ UNCHANGED <<loader_vars, store_vars, client_vars>>

\* one execution on a new pipeline, every call of the builder returning
Next ==
    \/ Load
    \/ EnrichPrices
    \/ EnrichPosition
    \/ BuildGraph

Spec == Init /\ [][Next]_vars

\* the same pipeline object executed again, without a reset in between or
\* after one
LoadSmall ==
    /\ pc = "idle"
    /\ LoadFrom(SmallFiles)

ReExecute ==
    /\ pc = "done"
    /\ runs < MaxRuns
    /\ LoadFrom(SmallFiles)

NextReuse ==
    \/ LoadSmall
    \/ ReExecute
    \/ EnrichPrices
    \/ EnrichPosition
    \/ BuildGraph
    \/ Reset

SpecReuse == Init /\ [][NextReuse]_vars

\* one execution on a new pipeline in which a call of the builder may raise
SingleFiles == FilesOf(CatalogPositions, 1)

LoadSingle ==
    /\ pc = "idle"
    /\ LoadFrom(SingleFiles)

NextFailure ==
    \/ LoadSingle
    \/ EnrichPrices
    \/ EnrichPosition
    \/ BuildGraphOrFail

SpecFailure == Init /\ [][NextFailure]_vars

-----------------------------------------------------------------------------
(* ETL runs on one store: etl_manager.py, process_uploaded_csv.  Every run    *)
(* has a new loader, builder and pipeline, loads a file under a portfolio     *)
(* name and executes the statements of the run in list order.  The runs here  *)
(* generate the Portfolio and Position statements (add_portfolio_nodes,       *)
(* add_position_nodes); the clock advances between two runs.                  *)

StoreNames == {"A", "B"}

\* datetime.now().isoformat() during the n-th run
ClockAt(n) ==
    CASE n = 1 -> "2024-01-01T00:00:01"
      [] n = 2 -> "2024-01-01T00:00:02"
      [] n = 3 -> "2024-01-01T00:00:03"
      [] OTHER -> "2024-01-01T00:00:04"

\* add_portfolio_nodes on a portfolio called `name`: name, created_at and
\* total_value stand inside the braces of the MERGE
add_portfolio_nodes_named(name, created_at, total) ==
    <<NodeStatement("MERGE", {"a", "c", "v"}, "Portfolio", escape_string(name), "",
                    created_at, 0, OrZero(total))>>

\* the CONTAINS statements of add_position_nodes(positions, portfolio_name)
ContainsRelationshipsOf(portfolio_name, ps) ==
    [i \in DOMAIN ps |->
        Statement("CONTAINS", escape_string(portfolio_name),
                  escape_string(ps[i].ticker), 0, OrZero(ps[i].weight))]

StorePositions ==
    {Position("AAPL-US", None, None, 10, 100, NoNum),
     Position("AAPL-US", None, None, 20, 200, NoNum),
     Position(None, None, "912828ZT6", 100, 1000, NoNum),
     Position(None, "US037833AK68", None, 100, 1000, NoNum)}
StoreFiles == {f \in FilesOf(StorePositions, MaxPositions) : load(f).loaded}

\* the statements of one run for the loaded portfolio: Portfolio.created_at is
\* None after the load, so created_at is the clock
RunStatements(name, ps, total, now) ==
    get_all_statements(add_portfolio_nodes_named(name, now, total) \o PositionNodes(ps),
                       ContainsRelationshipsOf(name, ps))

InitStore ==
    /\ pc = "store"
    /\ Constructed
    /\ row = NoRow
    /\ position = NoPosition

\* one upload: load, build, execute every statement
RunETL ==
    /\ pc = "store"
    /\ Len(executed) < MaxRuns
    /\ \E name \in StoreNames, f \in StoreFiles :
          LET p == load(f)
          IN  executed' =
                  Append(executed,
                         RunStatements(name, p.positions, p.total_value,
                                       ClockAt(Len(executed) + 1)))
    /\ UNCHANGED <<pc, portfolio_vars, pipeline_vars, loader_vars, client_vars>>

NextStore == RunETL

SpecStore == InitStore /\ [][NextStore]_vars

\* the portfolio name of the k-th run, the number of nodes the store held after
\* it, and the run that created the node at place j
RunName(k) == executed[k][1].a
NodesAfter(k) == Len(Execute(<<>>, Flatten(SubSeq(executed, 1, k))))
RunOfNode(j) ==
    CHOOSE k \in DOMAIN executed : j <= NodesAfter(k) /\ (k > 1 => j > NodesAfter(k - 1))
PositionNodesOfStore ==
    {j \in DOMAIN StoreGraph.nodes : StoreGraph.nodes[j].kind = "Position"}

\* the Portfolio nodes that a CONTAINS relationship attaches the node to
PortfoliosOf(j) ==
    {r.from : r \in {r \in StoreGraph.relationships :
                         r.type = "CONTAINS" /\ r.to = j}}

PositionsHeldFor(name) ==
    {j \in PositionNodesOfStore :
        \E p \in PortfoliosOf(j) : StoreGraph.nodes[p].a = name}
LatestRun(name) ==
    CHOOSE k \in DOMAIN executed :
        RunName(k) = name /\ \A m \in DOMAIN executed : RunName(m) = name => m <= k

-----------------------------------------------------------------------------
(* Properties of the pipeline *)

Returned == pc = "done" /\ result.returned /\ result.portfolio

\* execute returned after a call of build_graph raised
BuildFailed ==
    /\ pc = "done"
    /\ result.returned
    /\ stats.errors # <<>>
    /\ stats.errors[Len(stats.errors)] = "Failed to build graph"

\* execute returned the portfolio and every call of build_graph succeeded
Built == Returned /\ ~BuildFailed

\* C2: no failure while enriching a position leaves the loop: no exception
\* escapes enrich_positions, and when the pipeline returns every position of
\* the portfolio has been attempted, in order.
C2_EveryPositionAttempted ==
    /\ pc # "raised"
    /\ Returned =>
          /\ Len(trace) = Len(positions)
          /\ \A i \in DOMAIN trace : trace[i].route = route(positions[i])

\* the first position failed with an unexpected error and the second was enriched
C2_Witness ==
    /\ Returned
    /\ Len(trace) >= 2
    /\ trace[1].route = "stock"
    /\ trace[1].resp.profile = "server_error"
    /\ trace[1].errors_added = 1
    /\ trace[1].companies_failed_added = 1
    /\ trace[2].security # None

NotFoundAt(i) == trace[i].route = "stock" /\ trace[i].resp.profile = "not_found"

\* C4: a position whose company enrichment ends in not-found adds exactly 1 to
\* companies_failed and nothing to the error list, and the pipeline still
\* returns the portfolio with all loaded positions.
C4_NotFoundIsNotAnError ==
    /\ \A i \in DOMAIN trace :
          NotFoundAt(i) =>
              /\ trace[i].companies_failed_added = 1
              /\ trace[i].errors_added = 0
    /\ (pc = "done" /\ \E i \in DOMAIN trace : NotFoundAt(i)) =>
          /\ result.returned
          /\ result.portfolio
          /\ Len(positions) = stats.positions_loaded
          /\ Len(trace) = Len(positions)

\* a two-position portfolio was returned after its first position was not found
C4_Witness ==
    /\ Returned
    /\ Len(positions) = 2
    /\ NotFoundAt(1)
    /\ stats.companies_failed = 1
    /\ stats.errors = <<>>

\* an adapter call for position i failed for authentication or permission reasons
AuthFailureAt(i) ==
    IF trace[i].route = "stock"
    THEN \/ trace[i].resp.profile \in {"auth", "permission"}
         \/ trace[i].resp.profile = "ok" /\ trace[i].resp.officers = "auth"
    ELSE trace[i].resp.details \in {"auth", "permission"}

C8_RoutedByTicker ==
    \A i \in DOMAIN trace :
        LET stock_side == trace[i].stocks_enriched_added + trace[i].companies_failed_added
            bond_side == trace[i].bonds_enriched_added + trace[i].bonds_failed_added
        IN  IF Truthy(positions[i].ticker)
            THEN trace[i].route = "stock" /\ stock_side = 1 /\ bond_side = 0
            ELSE trace[i].route = "bond" /\ bond_side = 1 /\ stock_side = 0

\* a position with a ticker and a CUSIP went through equity enrichment
C8_Witness ==
    \E i \in DOMAIN trace :
        /\ positions[i].ticker = "MSFT-US"
        /\ positions[i].cusip = "594918104"
        /\ trace[i].route = "stock"
        /\ trace[i].stocks_enriched_added = 1

\* the securities the INVESTED_IN statements link the Position node of position i to
InvestedIn(i) ==
    {s.b : s \in {t \in Range(result.statements) :
                     /\ t.kind = "INVESTED_IN"
                     /\ t.a = Or(positions[i].ticker, "")
                     /\ t.q = positions[i].quantity
                     /\ t.v = positions[i].book_value}}

IssuedBy(security) ==
    {s.b : s \in {t \in Range(result.statements) :
                     t.kind = "ISSUED_BY" /\ t.a = security}}

CountryNodesOfRun ==
    LET nodes == Execute(<<>>, result.statements)
    IN  {j \in DOMAIN nodes : nodes[j].kind = "Country"}
IsoCodesOfRun ==
    {COUNTRY_MAPPING(companies[i].v.country) :
        i \in {k \in DOMAIN companies : Truthy(companies[k].v.country)}}

Priced == pc \in {"enrich_positions", "done"} /\ positions # <<>>

\* bond position i got no price from the provider during price enrichment
NoPriceFor(i) ==
    /\ ~Truthy(positions[i].ticker)
    /\ get_primary_identifier(positions[i])[2] \notin PriceKeys(positions, fetched)

\* the CREATE statements of the Position nodes, in the order of the positions
PositionStatements == SelectSeq(result.statements, LAMBDA t : t.kind = "Position")

NoBondDataAt(i) ==
    /\ trace[i].route = "bond"
    /\ trace[i].resp.details \in
           {"empty", "not_found", "auth", "permission", "server_error"}

C16_WeightsFollowPrices ==
    Priced =>
        LET w == calculate_weights(positions)
        IN  /\ positions = w.positions
            /\ total_value = w.total_value

\* entity enrichment is about to start after the stock price request failed
\* and a bond was priced: the weights moved from book values to market values
C16_Witness ==
    /\ pc = "enrich_positions"
    /\ idx = 1
    /\ ~fetched.stock_ok
    /\ \E i, j \in DOMAIN positions :
          /\ Truthy(positions[i].ticker)
          /\ positions[i].market_value = NoNum
          /\ positions[i].weight = 0
          /\ positions[j].market_value # NoNum
          /\ positions[j].weight = 100 * WeightScale

\* a price request of this execution failed: the equity batch, the CUSIP batch
\* or an ISIN lookup, each for a portfolio that has such positions
PriceFetchFailed ==
    \/ ~fetched.stock_ok /\ \E i \in DOMAIN positions : Truthy(positions[i].ticker)
    \/ ~fetched.batch_ok /\ \E i \in DOMAIN positions : Truthy(positions[i].cusip)
    \/ ~fetched.isin_ok /\ \E i \in DOMAIN positions :
                               ~Truthy(positions[i].cusip) /\ Truthy(positions[i].isin)

\* C17: when a price request failed, the statistics hold an error as entity
\* enrichment starts, and every position is then enriched.
C17_PriceFailuresRecorded ==
    /\ (pc = "enrich_positions" /\ idx = 1 /\ PriceFetchFailed) => stats.errors # <<>>
    /\ (Returned /\ PriceFetchFailed) => Len(trace) = Len(positions)

\* C18: when statement generation fails during graph build, the failure is in
\* the error list and execute returns the portfolio together with the
\* statements that were generated before the failing call (those the builder
\* holds), leaving out only the failing batch.
C18_BuildFailureKeepsStatements ==
    BuildFailed =>
        /\ result.portfolio
        /\ result.statements =
               get_all_statements(node_statements, relationship_statements)

\* the sum of a counter over the positions handled in this execution
Added(field) == SumSeq([i \in DOMAIN trace |-> trace[i][field]])

\* the statistics and the statements that this execution alone produces
OwnResults ==
    LET g == build_graph(positions, total_value, Env, <<>>, <<>>, None)
        price_errors == IF pc = "done" /\ result.portfolio
                        THEN Len(PriceErrors(positions, fetched)) ELSE 0
        load_errors == IF result.portfolio THEN 0 ELSE 1
    IN  /\ stats.portfolios_loaded = (IF result.portfolio THEN 1 ELSE 0)
        /\ stats.positions_loaded = Len(positions)
        /\ Len(stats.errors) = load_errors + price_errors + Added("errors_added")
        /\ stats.companies_failed = Added("companies_failed_added")
        /\ stats.bonds_failed = Added("bonds_failed_added")
        /\ stats.stocks_enriched = Added("stocks_enriched_added")
        /\ stats.bonds_enriched = Added("bonds_enriched_added")
        /\ stats.graph_nodes_created = Len(node_statements)
        /\ stats.graph_relationships_created = Len(relationship_statements)
        /\ result.portfolio =>
               /\ node_statements = g.node_statements
               /\ relationship_statements = g.relationship_statements
               /\ result.statements = g.statements

\* C19: after reset every counter of the pipeline is zero, its error list is
\* empty and the builder holds no statements; the execution that follows a
\* reset returns the statistics and the statements of that execution alone,
\* whatever the executions before the reset had left.
C19_ResetClearsEverything ==
    /\ (pc = "idle" /\ was_reset) =>
           /\ stats = PipelineStatistics
           /\ node_statements = <<>>
           /\ relationship_statements = <<>>
    /\ (pc = "done" /\ was_reset /\ runs = 1) => OwnResults

\* the first execution after a reset returned a portfolio with statements and
\* an empty error list
C19_Witness ==
    /\ pc = "done"
    /\ was_reset
    /\ runs = 1
    /\ result.portfolio
    /\ result.statements # <<>>
    /\ stats.errors = <<>>

\* a statement that writes a node / one that links nodes it looks up
IsNodeStatement(s) == s.op \in {"MERGE", "CREATE"}
IsRelationshipStatement(s) == s.op = "MATCH"

\* C20: in the statement list execute returns for the graph store every node
\* statement stands before every relationship statement, so that a
\* relationship statement comes after the node statements of this list for the
\* nodes it names.
C20_NodesBeforeRelationships ==
    Built =>
        \A i, j \in DOMAIN result.statements :
            (IsNodeStatement(result.statements[i])
                 /\ IsRelationshipStatement(result.statements[j])) => i < j

\* a returned list with node statements and relationship statements of several
\* kinds
C20_Witness ==
    /\ Built
    /\ \E i, j, k \in DOMAIN result.statements :
          /\ result.statements[i].kind = "Company"
          /\ result.statements[j].kind = "CONTAINS"
          /\ result.statements[k].kind = "HEADQUARTERED_IN"
          /\ result.statements[k].a = result.statements[i].a

LoadFailed == pc = "done" /\ result.returned /\ ~result.portfolio

\* C3 as stated: after a failed load execute has returned no portfolio, no
\* statements and statistics that hold exactly one error, and no later stage ran.
C3_LoadFailureExactlyOneError ==
    LoadFailed =>
        /\ result.statements = <<>>
        /\ Len(stats.errors) = 1
        /\ trace = <<>>
        /\ idx = 0

\* the step of execute that fails to load and returns at once
LoadFailedStep == runs' = runs + 1 /\ result'.returned

\* C3, amended: a failed load makes execute return no portfolio and no
\* statements, adds exactly one error to the statistics and changes nothing
\* else (no price enrichment, entity enrichment or graph build); the statistics
\* hold exactly one error when the pipeline was new or reset before the call.
C3_LoadFailureAddsOneError ==
    [][LoadFailedStep =>
          /\ pc' = "done"
          /\ ~result'.portfolio
          /\ result'.statements = <<>>
          /\ stats'.errors = Append(stats.errors, "Failed to load portfolio")
          /\ [stats' EXCEPT !.errors = stats.errors] = stats
          /\ node_statements' = node_statements
          /\ relationship_statements' = relationship_statements
          /\ trace' = <<>>
          /\ (runs = 0 => Len(stats'.errors) = 1)]_vars

\* a second execution on the same pipeline failed to load after the first one
\* had recorded an error
C3_Witness ==
    /\ LoadFailed
    /\ runs = 2
    /\ Len(stats.errors) = 2
    /\ stats.portfolios_loaded = 1

-----------------------------------------------------------------------------
(* Properties of the store after one execution of the pipeline *)

\* the positions of the run whose issuer enrichment resolved, and the rows that
\* group them by the sector of the issuer
IssuerKnown == {i \in DOMAIN trace : trace[i].company # None}
SectorRowsOfPositions ==
    {[sector |-> CompanySector(trace[i].company),
      total_exposure |->
          SumSeq([k \in DOMAIN positions |->
                     IF /\ k \in IssuerKnown
                        /\ CompanySector(trace[k].company) = CompanySector(trace[i].company)
                     THEN OrZero(positions[k].market_value) ELSE 0]),
      num_positions |->
          Cardinality({k \in IssuerKnown :
                          CompanySector(trace[k].company) =
                              CompanySector(trace[i].company)})] : i \in IssuerKnown}

-----------------------------------------------------------------------------
(* Properties of the counters *)

\* the loop of enrich_positions has ended in this execution
EnrichmentEnded == (pc = "enrich_positions" /\ idx > Len(positions)) \/ Returned

EquityRouted == {i \in DOMAIN positions : Truthy(positions[i].ticker)}
FixedIncomeRouted == DOMAIN positions \ EquityRouted

\* what the iterations of this execution added to the counters of each side
AddedOnStockSide ==
    SumSeq([i \in DOMAIN trace |->
               trace[i].stocks_enriched_added + trace[i].companies_failed_added])
AddedOnBondSide ==
    SumSeq([i \in DOMAIN trace |->
               trace[i].bonds_enriched_added + trace[i].bonds_failed_added])

C28_CountersMatchReturnedStatements ==
    (pc = "done" /\ result.returned) =>
        /\ stats.graph_nodes_created =
               Cardinality({i \in DOMAIN result.statements :
                               IsNodeStatement(result.statements[i])})
        /\ stats.graph_relationships_created =
               Cardinality({i \in DOMAIN result.statements :
                               IsRelationshipStatement(result.statements[i])})

-----------------------------------------------------------------------------
(* The provider client: clients/factset_client.py, _make_request.  One call   *)
(* handles the responses to its request one after the other: after a          *)
(* rate-limit response that it accepts it sleeps and calls itself.  A request *)
(* is [state, max_retry_delay, status, retry_after, slept, depth, raised]:    *)
(* retry_after is the delay the last rate-limit response asked for, slept     *)
(* lists the seconds of every time.sleep(retry_after) of the call, depth      *)
(* counts the calls of _make_request that are on the stack.                   *)

RecursionLimit == 3     \* calls of _make_request the interpreter's stack holds

\* max_retry_delay of __init__: the default scaled down, and a smaller ceiling
MaxRetryDelays == {2, 5}

\* response.headers.get("Retry-After", 5) of a 429 response: the header absent,
\* a number of seconds, or a text that int() rejects
RetryAfterHeaders ==
    {[present |-> FALSE, numeric |-> FALSE, seconds |-> 0],
     [present |-> TRUE, numeric |-> FALSE, seconds |-> 0]}
    \cup [present : {TRUE}, numeric : {TRUE}, seconds : {-1, 0, 2, 3, 6}]

\* the statuses that raise, and a request that gets no response in time
FailureStatuses == {401, 403, 404, 500, 0}

RaisedFor(status) ==
    CASE status = 401 -> "FactSetAuthenticationError"
      [] status = 403 -> "FactSetPermissionError"
      [] status = 404 -> "FactSetNotFoundError"
      [] OTHER -> "FactSetClientError"

Raise(req, status, exception) ==
    [req EXCEPT !.state = "raised", !.status = status, !.raised = exception]

\* the branch `if response.status_code == 429` without the check of the ceiling
rate_limited_without_ceiling(req, header) ==
    IF header.present /\ ~header.numeric
    THEN Raise(req, 429, "ValueError")                 \* int(...)
    ELSE LET retry_after == IF header.present THEN header.seconds ELSE 5
             r == [req EXCEPT !.retry_after = retry_after]
         IN  IF retry_after < 0
             THEN Raise(r, 429, "ValueError")          \* time.sleep(negative)
             ELSE IF req.depth = RecursionLimit
             THEN [Raise(r, 429, "RecursionError")
                      EXCEPT !.slept = Append(@, retry_after)]
             ELSE [r EXCEPT !.status = 429,
                            !.slept = Append(@, retry_after),
                            !.depth = @ + 1]

\* the branch `if response.status_code == 429` of _make_request
rate_limited(req, header) ==
    IF header.present /\ ~header.numeric
    THEN Raise(req, 429, "ValueError")                 \* int(...)
    ELSE LET retry_after == IF header.present THEN header.seconds ELSE 5
             r == [req EXCEPT !.retry_after = retry_after]
         IN  IF retry_after > req.max_retry_delay
             THEN Raise(r, 429, "FactSetClientError")
             ELSE IF retry_after < 0
             THEN Raise(r, 429, "ValueError")          \* time.sleep(negative)
             ELSE IF req.depth = RecursionLimit
             THEN \* time.sleep(retry_after), then the call of itself fails
                  [Raise(r, 429, "RecursionError")
                      EXCEPT !.slept = Append(@, retry_after)]
             ELSE [r EXCEPT !.status = 429,
                            !.slept = Append(@, retry_after),
                            !.depth = @ + 1]

InitClient ==
    /\ pc = "client"
    /\ positions = <<>>
    /\ total_value = NoNum
    /\ stats = PipelineStatistics
    /\ idx = 0
    /\ stocks = <<>>
    /\ bonds = <<>>
    /\ companies = <<>>
    /\ countries = <<>>
    /\ executives = <<>>
    /\ node_statements = <<>>
    /\ relationship_statements = <<>>
    /\ result = NoResult
    /\ trace = <<>>
    /\ runs = 0
    /\ fetched = NoFetch
    /\ executed = <<>>
    /\ was_reset = FALSE
    /\ row = NoRow
    /\ position = NoPosition
    /\ \E ceiling \in MaxRetryDelays :
          request = [NoRequest EXCEPT !.state = "requesting",
                                      !.max_retry_delay = ceiling, !.depth = 1]

client_frame == <<pc, portfolio_vars, pipeline_vars, loader_vars, store_vars>>

\* the response is a rate-limit response
RateLimited ==
    /\ request.state = "requesting"
    /\ \E header \in RetryAfterHeaders : request' = rate_limited(request, header)
    /\ UNCHANGED client_frame

\* the response has a status that raises, or no response arrives in time
Failed ==
    /\ request.state = "requesting"
    /\ \E status \in FailureStatuses :
          request' = Raise(request, status, RaisedFor(status))
    /\ UNCHANGED client_frame

\* the response is a success: _make_request returns response.json()
Succeeded ==
    /\ request.state = "requesting"
    /\ request' = [request EXCEPT !.state = "returned", !.status = 200]
    /\ UNCHANGED client_frame

NextClient ==
    \/ RateLimited
    \/ Failed
    \/ Succeeded

\* every request is answered or times out (timeout=self.timeout of the session)
SpecClient == InitClient /\ [][NextClient]_vars /\ WF_vars(NextClient)

\* no sleep for a retry is longer than the ceiling, and a rate-limit response
\* that asks for more has ended the call with an error
WithinCeiling ==
    /\ \A i \in DOMAIN request.slept : request.slept[i] <= request.max_retry_delay
    /\ request.status = 429 /\ request.retry_after > request.max_retry_delay =>
           /\ request.state = "raised"
           /\ request.raised = "FactSetClientError"

\* C30: on a rate-limit response the client never sleeps longer than
\* max_retry_delay for one retry: when the response asks for a longer delay the
\* request fails without sleeping; and every request comes to an end, returning
\* or raising, so the pipeline is not blocked for ever.
C30_RetryWaitWithinCeiling ==
    /\ []WithinCeiling
    /\ [][request.state = "requesting" /\ request'.state = "requesting" =>
             /\ Len(request'.slept) = Len(request.slept) + 1
             /\ request'.slept[Len(request'.slept)] <= request.max_retry_delay]_vars
    /\ <>(request.state \in {"returned", "raised"})

\* a request slept for a retry and was then asked to wait longer than the
\* ceiling: it has failed with the sleeps it had made before
C30_Witness ==
    /\ request.state = "raised"
    /\ request.status = 429
    /\ request.raised = "FactSetClientError"
    /\ request.max_retry_delay = 2
    /\ request.retry_after = 3
    /\ request.slept = <<2>>

====
